---- MODULE Spec2Model ----
(***************************************************************************)
(* Verification model of tg-id-bot: the subject-token extraction           *)
(* (utils.py), the SQLite repository (db.py) and the aiogram handlers      *)
(* (bot.py) that keep the message index, the per-actor flows and the       *)
(* quota / spacing / ban guard.                                            *)
(*                                                                         *)
(* Text is a sequence of one-character strings, so that the regular        *)
(* expressions of the code are computed character by character.            *)
(* Timestamps are whole seconds.                                           *)
(***************************************************************************)
EXTENDS Integers, Sequences, FiniteSets, TLC

\* Python's None / a missing row is the empty tuple; a present value v is <<v>>
None == <<>>

Some(v) == <<v>>

Val(o) == o[1]

\* SQL NULL in a column that holds a user id
NULL_ID == "NULL"

(***************************************************************************)
(* Characters and texts                                                    *)
(***************************************************************************)
Digits == {"0", "1", "2", "3", "4", "5", "6", "7", "8", "9"}

IsDigit(c) == c \in Digits

\* the {10} of the patterns \d{10}
ID_LEN == 10

Rep(c, n) == [i \in 1..n |-> c]

\* text.strip() for the blank character of the model
RECURSIVE LStrip(_)
LStrip(s) == IF s # <<>> /\ Head(s) = " " THEN LStrip(Tail(s)) ELSE s

RECURSIVE RStrip(_)
RStrip(s) ==
    IF s # <<>> /\ s[Len(s)] = " " THEN RStrip(SubSeq(s, 1, Len(s) - 1)) ELSE s

Strip(s) == RStrip(LStrip(s))

(***************************************************************************)
(* utils.extract_male_ids: re.compile(r"(?<!\d)(\d{10})(?!\d)").findall    *)
(***************************************************************************)
\* does the pattern match with its group starting at position i
MatchAt(text, i) ==
    /\ i + ID_LEN - 1 <= Len(text)
    /\ (i = 1 \/ ~IsDigit(text[i - 1]))
    /\ \A k \in i..(i + ID_LEN - 1) : IsDigit(text[k])
    /\ (i + ID_LEN > Len(text) \/ ~IsDigit(text[i + ID_LEN]))

\* the same without the lookahead (?!\d)
MatchAtNoLookahead(text, i) ==
    /\ i + ID_LEN - 1 <= Len(text)
    /\ (i = 1 \/ ~IsDigit(text[i - 1]))
    /\ \A k \in i..(i + ID_LEN - 1) : IsDigit(text[k])

\* findall: leftmost match from pos on, then on from the end of that match
RECURSIVE FindAll(_, _)
FindAll(text, pos) ==
    IF pos > Len(text) THEN <<>>
    ELSE IF MatchAt(text, pos)
         THEN <<SubSeq(text, pos, pos + ID_LEN - 1)>> \o FindAll(text, pos + ID_LEN)
         ELSE FindAll(text, pos + 1)

RECURSIVE FindAllNoLookahead(_, _)
FindAllNoLookahead(text, pos) ==
    IF pos > Len(text) THEN <<>>
    ELSE IF MatchAtNoLookahead(text, pos)
         THEN <<SubSeq(text, pos, pos + ID_LEN - 1)>>
                  \o FindAllNoLookahead(text, pos + ID_LEN)
         ELSE FindAllNoLookahead(text, pos + 1)

extract_male_ids_nolookahead(text) ==
    IF text = <<>> THEN <<>> ELSE FindAllNoLookahead(text, 1)

extract_male_ids(text) ==
    IF text = <<>> THEN <<>> ELSE FindAll(text, 1)

\* re.fullmatch(r"\d{10}", text)
valid_id(text) == Len(text) = ID_LEN /\ \A k \in 1..Len(text) : IsDigit(text[k])

SeqToSet(s) == {s[i] : i \in 1..Len(s)}

(***************************************************************************)
(* State                                                                   *)
(***************************************************************************)
VARIABLES
    now,                \* time.time(), whole seconds
    \* --- SQLite tables (db.py) ---
    admins,             \* admins(user_id)
    allowed_users,      \* allowed_users: user_id -> row or None
    settings,           \* settings: key -> value or None
    searches,           \* searches rows, in insertion order
    audit_log,          \* audit_log rows, in insertion order
    ratelimits,         \* ratelimits: user_id -> last_action_ts or None
    messages,           \* messages rows; the row's id is its position
    message_male_ids,   \* message_male_ids: set of <<message_id_ref, male_id>>
    allowed_chats,      \* allowed_chats: chat_id -> row or None
    female_legends,     \* female_legends: female_id -> row or None
    \* --- in-process dictionaries (bot.py) ---
    NAV_STATE, NAV_STACK,
    REPORT_STATE, LEGEND_STATE, LEGEND_VIEW_STATE,
    MALE_SEARCH_STATE, GUEST_REPORT_STATE,
    \* --- the event handled last and the response sent for it ---
    ev,
    \* --- query results obtained since the repository last changed ---
    results,
    \* --- input and result of extract_male_ids ---
    xtext, xids,
    \* --- steps the clock has made ---
    ticks,
    \* --- handlers suspended at an await, in the order they got there ---
    inflight,
    \* --- ADM_PENDING: the admin request an actor was asked an id for ---
    ADM_PENDING,
    \* --- seconds the host's local time is ahead of UTC ---
    tz_offset

userVars == <<admins, allowed_users, settings>>
logVars  == <<searches, audit_log, ratelimits>>
idxVars  == <<messages, message_male_ids, allowed_chats, female_legends>>
sessVars == <<NAV_STATE, NAV_STACK, REPORT_STATE, LEGEND_STATE,
              LEGEND_VIEW_STATE, MALE_SEARCH_STATE, GUEST_REPORT_STATE>>
xVars    == <<xtext, xids, ticks, inflight, ADM_PENDING, tz_offset>>
vars     == <<now, userVars, logVars, idxVars, sessVars, ev, results, xVars>>

(***************************************************************************)
(* Actors, chats, subject tokens and texts of the model                    *)
(***************************************************************************)
\* SUPERADMINS as loaded by refresh_superadmins()
SUPERADMINS == {"sa"}

Users == {"sa", "ad", "g"}

Chats == {"c1", "c2"}

TokA == Rep("1", ID_LEN)
TokB == Rep("2", ID_LEN)
TokC == Rep("3", ID_LEN)
Tokens == {TokA, TokB, TokC}

\* an 11-digit run: no subject token
LongRun == Rep("1", ID_LEN + 1)

Sp == <<" ">>
Plain == <<"h", "i">>

\* platform message ids 1..MaxMid of a chat
MaxMid == 1

\* first value of the clock
T0 == 200000

(***************************************************************************)
(* Time strings: a string "%Y-%m-%d %H:%M:%S" is the pair <<day, second of *)
(* the day>>; SQLite and Python compare the strings lexicographically.     *)
(* time.strftime(.., time.localtime(ts)) writes the host's local time and  *)
(* time.mktime(time.strptime(..)) reads it back; CURRENT_TIMESTAMP and     *)
(* calendar.timegm write and read UTC                                      *)
(***************************************************************************)
DAY_SECONDS == 86400

\* the string of the instant ts in UTC
TimeString(ts) == <<ts \div DAY_SECONDS, ts % DAY_SECONDS>>

strftime(ts) == TimeString(ts + tz_offset)

mktime(str) == str[1] * DAY_SECONDS + str[2] - tz_offset

\* calendar.timegm(time.strptime(..))
timegm(str) == str[1] * DAY_SECONDS + str[2]

StrGreater(a, b) == a[1] > b[1] \/ (a[1] = b[1] /\ a[2] > b[2])

\* DEFAULT CURRENT_TIMESTAMP of a created_at / ts column at time t
CURRENT_TIMESTAMP(t) == TimeString(t)

(***************************************************************************)
(* db.py: roles and allow-list                                             *)
(***************************************************************************)
is_superadmin(uid) == uid \in SUPERADMINS

is_admin(uid) == is_superadmin(uid) \/ uid \in admins

db_is_allowed_user(au, uid) == au[uid] # None

add_allowed_user(au, uid, added_by) ==
    [au EXCEPT ![uid] =
        IF @ = None THEN Some([added_by |-> added_by, banned_until |-> None])
        ELSE Some([Val(@) EXCEPT !.added_by = added_by])]

remove_allowed_user(au, uid) == [au EXCEPT ![uid] = None]

set_user_ban(au, uid, banned_until_ts) ==
    [au EXCEPT ![uid] =
        IF @ = None
        THEN Some([added_by |-> NULL_ID, banned_until |-> strftime(banned_until_ts)])
        ELSE Some([Val(@) EXCEPT !.banned_until = strftime(banned_until_ts)])]

\* None is returned as 0: every caller tests "banned_until and now < banned_until"
get_user_ban(au, uid) ==
    IF au[uid] = None \/ Val(au[uid]).banned_until = None THEN 0
    ELSE mktime(Val(au[uid]).banned_until)

(***************************************************************************)
(* db.py: messages and message_male_ids                                    *)
(***************************************************************************)
\* SELECT id FROM messages WHERE chat_id=? AND message_id=?  (0: no row)
MessageRowId(msgs, chat_id, message_id) ==
    IF \E i \in 1..Len(msgs) :
           msgs[i].chat_id = chat_id /\ msgs[i].message_id = message_id
    THEN CHOOSE i \in 1..Len(msgs) :
           msgs[i].chat_id = chat_id /\ msgs[i].message_id = message_id
    ELSE 0

\* INSERT OR IGNORE ... on the key (chat_id, message_id)
save_message(msgs, chat_id, message_id, sender_id, date, text) ==
    IF MessageRowId(msgs, chat_id, message_id) # 0 THEN msgs
    ELSE Append(msgs, [chat_id |-> chat_id, message_id |-> message_id,
                       sender_id |-> sender_id, date |-> date, text |-> text])

update_message_text(msgs, chat_id, message_id, text) ==
    [i \in 1..Len(msgs) |->
        IF msgs[i].chat_id = chat_id /\ msgs[i].message_id = message_id
        THEN [msgs[i] EXCEPT !.text = text] ELSE msgs[i]]

link_male_ids(links, message_db_id, male_ids) ==
    links \cup {<<message_db_id, mid>> : mid \in SeqToSet(male_ids)}

unlink_all_male_ids(links, message_db_id) ==
    {l \in links : l[1] # message_db_id}

(***************************************************************************)
(* db.py: allowed_chats and female_legends                                 *)
(***************************************************************************)
add_allowed_chat(ac, chat_id, female_id, added_by, t) ==
    [ac EXCEPT ![chat_id] =
        Some([female_id |-> female_id, added_by |-> added_by, added_at |-> t])]

remove_allowed_chat(ac, chat_id) == [ac EXCEPT ![chat_id] = None]

\* a variant that finds a registration for every chat
get_allowed_chat_any(ac, chat_id) ==
    IF ac[chat_id] = None
    THEN Some([female_id |-> TokC, added_by |-> "ad", added_at |-> T0])
    ELSE ac[chat_id]

get_allowed_chat(ac, chat_id) == ac[chat_id]

upsert_female_legend(fl, female_id, chat_id, content, message_id) ==
    [fl EXCEPT ![female_id] =
        Some([chat_id |-> chat_id, content |-> content, message_id |-> message_id])]

get_female_legend(fl, female_id) == fl[female_id]

(***************************************************************************)
(* bot.py: legend text and group listeners                                 *)
(***************************************************************************)
\* LEGEND_HASHTAG, one character in the model
LEGEND_HASHTAG == <<"#">>

\* the placeholder stored when the title holds no id
UNKNOWN_FEMALE == <<"?">>

FemaleIds == Tokens \cup {UNKNOWN_FEMALE}

HasHashtag(text) == \E i \in 1..Len(text) : text[i] = LEGEND_HASHTAG[1]

\* format_legend_text with BOT_USERNAME = "" (no deep link)
format_legend_text(body) ==
    LET clean == Strip(body) IN
    IF clean # <<>> /\ clean[1] = LEGEND_HASHTAG[1] THEN clean
    ELSE IF clean # <<>> THEN LEGEND_HASHTAG \o <<"\n">> \o clean
    ELSE LEGEND_HASHTAG

\* db.get_female_id_from_title: the first 10-digit run delimited by non-digits
get_female_id_from_title(title) ==
    LET ids == extract_male_ids(title) IN
    IF ids = <<>> THEN None ELSE ids[1]

\* process_legend_from_chat: the legend table after a hashtag message
process_legend_from_chat(fl, ac, chat_id, message_id, text) ==
    IF ac[chat_id] = None THEN fl
    ELSE upsert_female_legend(fl, Val(ac[chat_id]).female_id, chat_id,
                              format_legend_text(text), message_id)

LinksOf(links, message_db_id) == {l[2] : l \in {k \in links : k[1] = message_db_id}}

\* on_group_edited without unlink_all_male_ids
EditedLinksAdditive(links, msg_db_id, text) ==
    link_male_ids(links, msg_db_id, extract_male_ids(text))

\* on_group_edited: unlink_all_male_ids, extract_male_ids, link_male_ids
EditedLinks(links, msg_db_id, text) ==
    link_male_ids(unlink_all_male_ids(links, msg_db_id), msg_db_id,
                  extract_male_ids(text))

\* texts of group messages; a text that is exactly ten digits is left out:
\* handle_male_search is registered before on_group_message and takes it
GroupTexts ==
    { Plain,
      TokA \o Sp \o TokB,
      TokB \o Sp \o TokC,
      TokA \o Sp \o TokA }

\* the chat whose traffic the index model follows
IndexChats == {"c1"}

GroupTitles == { Plain \o Sp \o TokC, Plain }

MessageIds == 1..MaxMid

IdxEvent(op, chat_id, message_id, text, out, old) ==
    [op |-> op, chat |-> chat_id, mid |-> message_id, text |-> text,
     out |-> out, old |-> old]

on_group_message(chat_id, message_id, sender_id, text) ==
    LET male_ids == extract_male_ids(text)
        saved    == save_message(messages, chat_id, message_id, sender_id, now, text)
        msg_db_id == MessageRowId(saved, chat_id, message_id)
        out == IF get_allowed_chat(allowed_chats, chat_id) = None THEN "not_registered"
               ELSE IF text = <<>> THEN "no_text"
               ELSE IF male_ids = <<>> THEN "no_ids"
               ELSE "saved"
    IN
    /\ female_legends' =
           IF out \in {"no_ids", "saved"} /\ HasHashtag(text)
           THEN process_legend_from_chat(female_legends, allowed_chats,
                                         chat_id, message_id, text)
           ELSE female_legends
    /\ messages' = IF out = "saved" THEN saved ELSE messages
    /\ message_male_ids' =
           IF out = "saved" THEN link_male_ids(message_male_ids, msg_db_id, male_ids)
           ELSE message_male_ids
    /\ ev' = IdxEvent("on_group_message", chat_id, message_id, text, out, {})
    /\ results' = [k \in DOMAIN results |-> None]
    /\ UNCHANGED <<now, userVars, logVars, allowed_chats, sessVars, xVars>>

on_group_edited(chat_id, message_id, text) ==
    LET msg_db_id == MessageRowId(messages, chat_id, message_id)
        out == IF get_allowed_chat(allowed_chats, chat_id) = None THEN "not_registered"
               ELSE IF msg_db_id = 0 THEN "no_row"
               ELSE "updated"
    IN
    /\ messages' = IF out = "updated"
                   THEN update_message_text(messages, chat_id, message_id, text)
                   ELSE messages
    /\ message_male_ids' =
           IF out = "updated" THEN EditedLinks(message_male_ids, msg_db_id, text)
           ELSE message_male_ids
    /\ ev' = IdxEvent("on_group_edited", chat_id, message_id, text, out,
                      LinksOf(message_male_ids, msg_db_id))
    /\ results' = [k \in DOMAIN results |-> None]
    /\ UNCHANGED <<now, userVars, logVars, allowed_chats, female_legends,
                   sessVars, xVars>>

\* on_bot_added: the bot becomes a member of the group
on_bot_added(chat_id, title, inviter_id) ==
    LET fid == get_female_id_from_title(title)
        female_id == IF fid = None THEN UNKNOWN_FEMALE ELSE fid
    IN
    /\ allowed_chats' = add_allowed_chat(allowed_chats, chat_id, female_id,
                                         inviter_id, now)
    /\ ev' = IdxEvent("on_bot_added", chat_id, 0, title, "authorize_ok", {})
    /\ results' = [k \in DOMAIN results |-> None]
    /\ UNCHANGED <<now, userVars, logVars, messages, message_male_ids,
                   female_legends, sessVars, xVars>>

\* unauthorize_group: /unauthorize sent in the group
unauthorize_group(uid, chat_id) ==
    /\ IF is_superadmin(uid)
       THEN /\ allowed_chats' = remove_allowed_chat(allowed_chats, chat_id)
            /\ ev' = IdxEvent("unauthorize_group", chat_id, 0, <<>>, "unauthorize_ok", {})
       ELSE /\ allowed_chats' = allowed_chats
            /\ ev' = IdxEvent("unauthorize_group", chat_id, 0, <<>>,
                              "unauthorize_only_superadmin", {})
    /\ results' = [k \in DOMAIN results |-> None]
    /\ UNCHANGED <<now, userVars, logVars, messages, message_male_ids,
                   female_legends, sessVars, xVars>>

(***************************************************************************)
(* Initial state: the process has just started (empty dictionaries) on a   *)
(* database file holding one registered group                              *)
(***************************************************************************)
SettingKeys == {"guest_limit_search", "guest_limit_report", "guest_limit_legend"}

\* the (limit, offset) pairs of the pagination claim
QueryKeys == {<<5, 0>>, <<5, 5>>, <<10, 0>>}

AllowedRow(added_by) == Some([added_by |-> added_by, banned_until |-> None])

InitUsers ==
    /\ admins = {"ad"}
    /\ allowed_users = [u \in Users |-> IF u \in SUPERADMINS THEN AllowedRow(u) ELSE None]
    /\ settings = [k \in SettingKeys |-> None]

InitLogs ==
    /\ searches = <<>>
    /\ audit_log = <<>>
    /\ ratelimits = [u \in Users |-> None]

InitChats ==
    /\ allowed_chats = [c \in Chats |->
           IF c = "c1"
           THEN Some([female_id |-> TokC, added_by |-> "ad", added_at |-> T0 - 1])
           ELSE None]
    /\ female_legends = [f \in FemaleIds |-> None]

InitIndexEmpty ==
    /\ messages = <<>>
    /\ message_male_ids = {}

InitSessions ==
    /\ NAV_STATE = [u \in Users |-> None]
    /\ NAV_STACK = [u \in Users |-> <<>>]
    /\ REPORT_STATE = [u \in Users |-> None]
    /\ LEGEND_STATE = [u \in Users |-> None]
    /\ LEGEND_VIEW_STATE = [u \in Users |-> None]
    /\ MALE_SEARCH_STATE = [u \in Users |-> None]
    /\ GUEST_REPORT_STATE = [u \in Users |-> None]

\* the host's offset is one of Z
InitMiscIn(Z) ==
    /\ ev = [op |-> "start"]
    /\ results = [k \in QueryKeys |-> None]
    /\ xtext = <<>>
    /\ xids = None
    /\ ticks = 0
    /\ inflight = <<>>
    /\ ADM_PENDING = [u \in Users |-> None]
    /\ tz_offset \in Z

\* the host runs in UTC
InitMisc == InitMiscIn({0})

(***************************************************************************)
(* SpecIndex: the message index under new, edited and (un)registration     *)
(* events                                                                  *)
(***************************************************************************)
InitIndex ==
    /\ now = T0
    /\ InitUsers /\ InitLogs /\ InitChats /\ InitIndexEmpty
    /\ InitSessions /\ InitMisc

GroupMessage ==
    \E c \in IndexChats, m \in MessageIds, t \in GroupTexts :
        on_group_message(c, m, "g", t)

GroupEdited ==
    \E c \in IndexChats, m \in MessageIds, t \in GroupTexts :
        on_group_edited(c, m, t)

BotAdded == \E c \in IndexChats, t \in GroupTitles : on_bot_added(c, t, "ad")

Unauthorize == \E u \in {"sa", "g"}, c \in IndexChats : unauthorize_group(u, c)

NextIndex == GroupMessage \/ GroupEdited \/ BotAdded \/ Unauthorize

SpecIndex == InitIndex /\ [][NextIndex]_vars

IsIdx(op) == ev.op = op

EvRowId == MessageRowId(messages, ev.chat, ev.mid)

\* C7 as stated: handling an edit of a tracked message (a message that has a
\* record) leaves the record with the new text and linked to exactly the
\* tokens extracted from the new text
C7_EditReplacesTextAndLinks ==
    (IsIdx("on_group_edited") /\ EvRowId # 0)
        => /\ messages[EvRowId].text = ev.text
           /\ LinksOf(message_male_ids, EvRowId) = SeqToSet(extract_male_ids(ev.text))

\* C7 amended: handling an edit of a tracked message whose group is registered
\* at the time of the edit leaves the record with the new text and linked to
\* exactly the tokens extracted from the new text
C7_EditReplacesInRegisteredGroup ==
    (IsIdx("on_group_edited") /\ EvRowId # 0 /\ allowed_chats[ev.chat] # None)
        => /\ messages[EvRowId].text = ev.text
           /\ LinksOf(message_male_ids, EvRowId) = SeqToSet(extract_male_ids(ev.text))

\* an edit from tokens {A, B} to {B, C} has been handled
C7_Witness ==
    /\ IsIdx("on_group_edited") /\ EvRowId # 0 /\ allowed_chats[ev.chat] # None
    /\ ev.old = {TokA, TokB}
    /\ ev.text = TokB \o Sp \o TokC
    /\ LinksOf(message_male_ids, EvRowId) = {TokB, TokC}

\* C8 as stated: after a new-message event in a registered group the record
\* of its key exists and is linked to exactly the tokens extracted from the
\* event's text
C8_NewMessageCreatesAndLinks ==
    (IsIdx("on_group_message") /\ allowed_chats[ev.chat] # None)
        => /\ EvRowId # 0
           /\ LinksOf(message_male_ids, EvRowId) = SeqToSet(extract_male_ids(ev.text))

(***************************************************************************)
(* SpecExtract: extract_male_ids applied to texts built of digit runs      *)
(***************************************************************************)
\* longest digit run of a segment
MaxRun == 11

\* segments of a text
MaxSegs == 2

RunLens == {0, 1} \cup ((ID_LEN - 1)..MaxRun)

\* a run of one digit followed by an optional non-digit character
Segments == { Rep(c, n) \o sep : c \in {"1", "2"}, n \in RunLens, sep \in {<<>>, <<"x">>} }

RECURSIVE TextsOf(_)
TextsOf(n) == IF n = 0 THEN {<<>>} ELSE { s \o t : s \in Segments, t \in TextsOf(n - 1) }

ExtractTexts == TextsOf(MaxSegs)

InitExtract ==
    /\ now = T0
    /\ InitUsers /\ InitLogs /\ InitChats /\ InitIndexEmpty /\ InitSessions
    /\ ev = [op |-> "start"]
    /\ results = [k \in QueryKeys |-> None]
    /\ xtext \in ExtractTexts
    /\ xids = None
    /\ ticks = 0
    /\ inflight = <<>>
    /\ ADM_PENDING = [u \in Users |-> None]
    /\ tz_offset = 0

Extract ==
    /\ xids = None
    /\ xids' = Some(extract_male_ids(xtext))
    /\ UNCHANGED <<now, userVars, logVars, idxVars, sessVars, ev, results, xtext, ticks, inflight,
                   ADM_PENDING, tz_offset>>

NextExtract == Extract

SpecExtract == InitExtract /\ [][NextExtract]_vars

\* position i starts a maximal digit run of text
IsRunStart(text, i) == IsDigit(text[i]) /\ (i = 1 \/ ~IsDigit(text[i - 1]))

\* last position of the maximal digit run starting at i
RunEnd(text, i) ==
    CHOOSE j \in i..Len(text) :
        /\ \A k \in i..j : IsDigit(text[k])
        /\ (j = Len(text) \/ ~IsDigit(text[j + 1]))

\* starts of the maximal digit runs of length exactly ID_LEN
TokenStarts(text) ==
    { i \in 1..Len(text) : IsRunStart(text, i) /\ RunEnd(text, i) - i + 1 = ID_LEN }

Ascending(S) ==
    CHOOSE s \in [1..Cardinality(S) -> S] :
        \A i, j \in 1..Cardinality(S) : i < j => s[i] < s[j]

MaximalRunsOfIdLen(text) ==
    LET s == Ascending(TokenStarts(text))
    IN  [k \in 1..Cardinality(TokenStarts(text)) |-> SubSeq(text, s[k], s[k] + ID_LEN - 1)]

\* C9: the result of extract_male_ids(text) is the sequence, in order of
\* occurrence, of the maximal digit runs of text that are exactly 10 long
C9_ExtractIsMaximalRunsOfTen ==
    xids # None => Val(xids) = MaximalRunsOfIdLen(xtext)

\* a text with an 11-digit run and a 10-digit run has been extracted from:
\* only the 10-digit run is returned
C9_Witness ==
    /\ xids # None
    /\ xtext = LongRun \o <<"x">> \o TokB
    /\ Val(xids) = <<TokB>>

(***************************************************************************)
(* db.search_by_male / db.count_by_male                                    *)
(***************************************************************************)
\* FROM messages m JOIN message_male_ids mm LEFT JOIN allowed_chats ac
\* WHERE mm.male_id = ? [AND ac.female_id = ?] [AND m.date >= ?]
\* female_id: None or Some(id); since_ts: 0 for no filter (if since_ts:)
MatchingRows(msgs, links, ac, male_id, female_id, since_ts) ==
    { i \in 1..Len(msgs) :
        /\ <<i, male_id>> \in links
        /\ (female_id # None =>
               /\ ac[msgs[i].chat_id] # None
               /\ Val(ac[msgs[i].chat_id]).female_id = Val(female_id))
        /\ (since_ts # 0 => msgs[i].date >= since_ts) }

count_by_male(msgs, links, ac, male_id, female_id, since_ts) ==
    Cardinality(MatchingRows(msgs, links, ac, male_id, female_id, since_ts))

\* ORDER BY m.date DESC: every order of the row ids S in which dates do not
\* increase; rows of equal date come in an order SQL leaves open
RECURSIVE DateDescOrders(_, _)
DateDescOrders(msgs, S) ==
    IF S = {} THEN {<<>>}
    ELSE UNION { { <<x>> \o t : t \in DateDescOrders(msgs, S \ {x}) } :
                 x \in { y \in S : \A z \in S : msgs[y].date >= msgs[z].date } }

\* LIMIT ? OFFSET ?
LimitOffset(s, limit, offset) ==
    IF offset >= Len(s) THEN <<>>
    ELSE SubSeq(s, offset + 1, IF offset + limit < Len(s) THEN offset + limit ELSE Len(s))

\* the row lists (of row ids) the query may return
search_by_male(msgs, links, ac, male_id, limit, offset, female_id, since_ts) ==
    { LimitOffset(s, limit, offset) :
        s \in DateDescOrders(msgs,
                 MatchingRows(msgs, links, ac, male_id, female_id, since_ts)) }

(***************************************************************************)
(* SpecQuery: paged queries for one subject over a stored index that does  *)
(* not change                                                              *)
(***************************************************************************)
\* rows of the stored index
MaxRows == 7

\* the page size of send_results
PAGE == 5

\* stored index of n rows for TokA in chat c1; rows tie and tie + 1 carry the
\* same date (tie = 0: all dates differ)
StoredRow(k, tie) ==
    [chat_id |-> "c1", message_id |-> k, sender_id |-> "g",
     date |-> T0 - 100 + (IF tie # 0 /\ k > tie THEN k - 1 ELSE k),
     text |-> Plain \o Sp \o TokA]

InitQuery ==
    /\ now = T0
    /\ InitUsers /\ InitLogs /\ InitChats /\ InitSessions /\ InitMisc
    /\ \E n \in (PAGE + 1)..MaxRows, tie \in 0..(MaxRows - 1) :
          /\ tie < n
          /\ messages = [k \in 1..n |-> StoredRow(k, tie)]
          /\ message_male_ids = {<<k, TokA>> : k \in 1..n}

Query(male_id, limit, offset) ==
    /\ results[<<limit, offset>>] = None
    /\ \E r \in search_by_male(messages, message_male_ids, allowed_chats,
                               male_id, limit, offset, None, 0) :
          results' = [results EXCEPT ![<<limit, offset>>] = Some(r)]
    /\ UNCHANGED <<now, userVars, logVars, idxVars, sessVars, ev, xVars>>

QueryPages == \E k \in QueryKeys : Query(TokA, k[1], k[2])

NextQuery == QueryPages

SpecQuery == InitQuery /\ [][NextQuery]_vars

\* C10 as stated: on unchanged contents the pages (5, 0) and (5, 5) are
\* disjoint and their concatenation is the page (10, 0)
C10_PagesConcatenate ==
    (\A k \in QueryKeys : results[k] # None)
        => /\ Val(results[<<5, 0>>]) \o Val(results[<<5, 5>>]) = Val(results[<<10, 0>>])
           /\ SeqToSet(Val(results[<<5, 0>>])) \cap SeqToSet(Val(results[<<5, 5>>])) = {}

\* C11 as stated: every returned page is ordered by date descending, and rows
\* of equal date by row id ascending
C11_OrderedByDateThenId ==
    \A k \in QueryKeys :
        results[k] # None =>
            LET r == Val(results[k]) IN
            \A i, j \in 1..Len(r) :
                i < j => \/ messages[r[i]].date > messages[r[j]].date
                         \/ /\ messages[r[i]].date = messages[r[j]].date
                            /\ r[i] < r[j]

(***************************************************************************)
(* Callback payloads of send_results and their parsing                     *)
(***************************************************************************)
\* "0123456789"
DecimalDigits == <<"0", "1", "2", "3", "4", "5", "6", "7", "8", "9">>

\* str(n) of a non-negative integer
RECURSIVE Str(_)
Str(n) ==
    IF n < 10 THEN <<DecimalDigits[n + 1]>>
    ELSE Str(n \div 10) \o <<DecimalDigits[(n % 10) + 1]>>

\* int(s) succeeds
IsInt(s) == s # <<>> /\ \A i \in 1..Len(s) : IsDigit(s[i])

\* int(s) of a digit string
RECURSIVE IntOf(_)
IntOf(s) ==
    IF s = <<>> THEN 0
    ELSE IntOf(SubSeq(s, 1, Len(s) - 1)) * 10
            + ((CHOOSE d \in 1..10 : DecimalDigits[d] = s[Len(s)]) - 1)

\* s.split(":")
RECURSIVE Split(_)
Split(s) ==
    IF \A i \in 1..Len(s) : s[i] # ":" THEN <<s>>
    ELSE LET i == CHOOSE k \in 1..Len(s) :
                      s[k] = ":" /\ \A j \in 1..(k - 1) : s[j] # ":"
         IN <<SubSeq(s, 1, i - 1)>> \o Split(SubSeq(s, i + 1, Len(s)))

\* TIME_FILTER_CHOICES = ["all", "24h"]
TF_ALL == <<"a", "l", "l">>
TF_24H == <<"2", "4", "h">>
TIME_FILTER_CHOICES == {TF_ALL, TF_24H}

\* the payloads carry no group filter
FiltTokenNone(female_filter) == <<"-">>

\* filt_token = female_filter or "-"
FiltToken(female_filter) == IF female_filter = None THEN <<"-">> ELSE Val(female_filter)

\* None if token == "-" else token
FiltOfToken(token) == IF token = <<"-">> THEN None ELSE Some(token)

\* f"more:{male_id}:{new_offset}:{filt_token}:{time_filter}:{allow_flag}"
MorePayload(male_id, new_offset, female_filter, time_filter, allow_filters) ==
    <<"m", "o", "r", "e", ":">> \o male_id \o <<":">> \o Str(new_offset) \o <<":">>
        \o FiltToken(female_filter) \o <<":">> \o time_filter \o <<":">>
        \o (IF allow_filters THEN <<"1">> ELSE <<"0">>)

\* the payload of the versions that issued no flag field
MorePayloadNoFlag(male_id, new_offset, female_filter, time_filter) ==
    <<"m", "o", "r", "e", ":">> \o male_id \o <<":">> \o Str(new_offset) \o <<":">>
        \o FiltToken(female_filter) \o <<":">> \o time_filter

\* f"mfilt:{male_id}:{filt_token}:{time_filter}"
FilterPayload(male_id, female_filter, time_filter) ==
    <<"m", "f", "i", "l", "t", ":">> \o male_id \o <<":">>
        \o FiltToken(female_filter) \o <<":">> \o time_filter

MoreArgs(male_id, offset, female_filter, time_filter, allow_filters) ==
    [male_id |-> male_id, offset |-> offset, female_filter |-> female_filter,
     time_filter |-> time_filter, allow_filters |-> allow_filters]

\* the parse reads the group filter of the payload as the flag
cb_more_args_shifted(data) ==
    LET parts == Split(data) IN
    IF Len(parts) < 3 \/ ~IsInt(parts[3]) THEN None
    ELSE IF Len(parts) >= 6
    THEN Some(MoreArgs(parts[2], IntOf(parts[3]), FiltOfToken(parts[4]), parts[5],
                       parts[4] # <<"0">>))
    ELSE IF Len(parts) >= 5
    THEN Some(MoreArgs(parts[2], IntOf(parts[3]), FiltOfToken(parts[4]), parts[5], TRUE))
    ELSE Some(MoreArgs(parts[2], IntOf(parts[3]), None, TF_ALL, TRUE))

\* cb_more: the arguments parsed from call.data; None when the parse raises
cb_more_args(data) ==
    LET parts == Split(data) IN
    IF Len(parts) < 3 \/ ~IsInt(parts[3]) THEN None
    ELSE IF Len(parts) >= 6
    THEN Some(MoreArgs(parts[2], IntOf(parts[3]), FiltOfToken(parts[4]), parts[5],
                       parts[6] # <<"0">>))
    ELSE IF Len(parts) >= 5
    THEN Some(MoreArgs(parts[2], IntOf(parts[3]), FiltOfToken(parts[4]), parts[5], TRUE))
    ELSE Some(MoreArgs(parts[2], IntOf(parts[3]), None, TF_ALL, TRUE))

(***************************************************************************)
(* SpecPayload: a `more` payload is issued and parsed back                 *)
(***************************************************************************)
\* largest offset a payload carries
MaxOffset == 12

PayloadFilters == {None, Some(TokB), Some(TokC)}

\* the arguments send_results issued the payload for; flag: the payload has
\* the flag field
InitPayload ==
    /\ now = T0
    /\ InitUsers /\ InitLogs /\ InitChats /\ InitIndexEmpty /\ InitSessions
    /\ results = [k \in QueryKeys |-> None]
    /\ xids = None
    /\ ticks = 0
    /\ inflight = <<>>
    /\ ADM_PENDING = [u \in Users |-> None]
    /\ tz_offset = 0
    /\ \E m \in Tokens, o \in 0..MaxOffset, f \in PayloadFilters,
          t \in TIME_FILTER_CHOICES, a \in BOOLEAN, flag \in BOOLEAN :
          /\ (~flag => a)
          /\ ev = [op |-> "send_results", args |-> MoreArgs(m, o, f, t, a), flag |-> flag]
          /\ xtext = IF flag THEN MorePayload(m, o, f, t, a)
                     ELSE MorePayloadNoFlag(m, o, f, t)

ParsePayload ==
    /\ xids = None
    /\ xids' = cb_more_args(xtext)
    /\ xids' # None
    /\ UNCHANGED <<now, userVars, logVars, idxVars, sessVars, ev, results, xtext, ticks, inflight,
                   ADM_PENDING, tz_offset>>

NextPayload == ParsePayload

SpecPayload == InitPayload /\ [][NextPayload]_vars

\* C14: parsing the `more` payload issued for (subject, offset, group filter,
\* time filter, flag) gives back the same five values, the token "-" as no
\* group filter; a payload without the flag field is parsed with the filter
\* controls enabled
C14_MorePayloadRoundTrip ==
    xids # None => Val(xids) = ev.args

\* a payload with a two-digit offset, a group filter, the 24h code and the
\* flag off has been parsed
C14_Witness ==
    /\ xids # None
    /\ xtext = MorePayload(TokA, MaxOffset, Some(TokC), TF_24H, FALSE)
    /\ Val(xids) = MoreArgs(TokA, MaxOffset, Some(TokC), TF_24H, FALSE)

(***************************************************************************)
(* Private chat: limits, logs and the search guard                         *)
(***************************************************************************)
\* rate_limit_allowed(..., min_interval: int = 2)
MIN_INTERVAL == 2

\* window of the abuse check: now_ts - 60
ABUSE_WINDOW == 60

\* row["c"] >= 30
ABUSE_THRESHOLD == 30

\* banned_until_ts = now_ts + 900
BAN_SECONDS == 900

\* get_setting_int defaults of the three guest limits
DEFAULT_LIMIT_SEARCH == 50
DEFAULT_LIMIT_REPORT == 5
DEFAULT_LIMIT_LEGEND == 10

SEARCH_TYPES == {"male", "guest_pair"}

get_setting_int(st, key, default) == IF st[key] = None THEN default ELSE Val(st[key])

\* INSERT INTO searches(user_id, query_type, query_value); created_at by default
log_search(log, user_id, query_type, t) ==
    Append(log, [user_id |-> user_id, query_type |-> query_type,
                 created_at |-> CURRENT_TIMESTAMP(t)])

\* INSERT INTO audit_log(actor_id, action, target, details); ts by default.
\* Only rows of action 'report_send' are kept: no modelled statement reads others.
log_audit(log, actor_id, action, target, t) ==
    IF action = "report_send"
    THEN Append(log, [actor_id |-> actor_id, action |-> action,
                      target |-> target, ts |-> CURRENT_TIMESTAMP(t)])
    ELSE log

\* SELECT COUNT(*) FROM searches WHERE user_id=? AND query_type IN (...)
\*   AND created_at > ?
CountSearches(log, uid, types, cutoff) ==
    Cardinality({ i \in 1..Len(log) :
                    /\ log[i].user_id = uid
                    /\ log[i].query_type \in types
                    /\ StrGreater(log[i].created_at, cutoff) })

\* SELECT COUNT(*) FROM audit_log WHERE actor_id=? AND action='report_send' AND ts > ?
CountReports(log, uid, cutoff) ==
    Cardinality({ i \in 1..Len(log) :
                    /\ log[i].actor_id = uid
                    /\ log[i].action = "report_send"
                    /\ StrGreater(log[i].ts, cutoff) })

\* db.rate_limit_allowed: the returned value ...
rate_limit_allowed(rl, user_id, now_ts) ==
    rl[user_id] = None \/ ~(now_ts - Val(rl[user_id]) < MIN_INTERVAL)

\* ... and the ratelimits table it leaves
\* a variant that stores the time of a rejected call too
rate_limit_stamp_always(rl, user_id, now_ts) == [rl EXCEPT ![user_id] = Some(now_ts)]

rate_limit_stamp(rl, user_id, now_ts) ==
    IF rate_limit_allowed(rl, user_id, now_ts)
    THEN [rl EXCEPT ![user_id] = Some(now_ts)]
    ELSE rl

\* banned_until and now_ts < banned_until
IsBanned(au, uid, now_ts) == get_user_ban(au, uid) # 0 /\ now_ts < get_user_ban(au, uid)

\* limited_user = (not is_admin(uid)) and (not db.is_allowed_user(uid))
limited_user(au, uid) == ~is_admin(uid) /\ ~db_is_allowed_user(au, uid)

\* a quota check that lets the request at the limit pass
QuotaReachedStrict(c, lim) == c > lim

\* row_q["c"] >= lim
QuotaReached(c, lim) == c >= lim

\* the checks before a search is performed, in the order of the code; the
\* result names the check that rejected the request, or "pass"
SearchGuardStop(uid) ==
    IF IsBanned(allowed_users, uid, now) THEN "ban"
    ELSE IF ~rate_limit_allowed(ratelimits, uid, now) THEN "spacing"
    ELSE IF /\ limited_user(allowed_users, uid)
            /\ QuotaReached(
                   CountSearches(searches, uid, SEARCH_TYPES, strftime(now - DAY_SECONDS)),
                   get_setting_int(settings, "guest_limit_search", DEFAULT_LIMIT_SEARCH))
         THEN "quota"
    ELSE "pass"

\* rate_limit_allowed is called unless the ban check returned
SpacingCalled(stop) == stop # "ban"

\* log_search is reached before the quota check
SearchRecordedBeforeQuota(stop) == stop \in {"pass", "quota"}

\* log_search is reached only when every check passed
SearchRecorded(stop) == stop = "pass"

\* the abuse check after log_search, on the log that holds the new row
AbuseReached(log, uid) ==
    CountSearches(log, uid, SEARCH_TYPES, strftime(now - ABUSE_WINDOW)) >= ABUSE_THRESHOLD

\* SELECT 1 FROM allowed_chats WHERE female_id=? LIMIT 1
FemaleRegistered(ac, fid) ==
    \E c \in DOMAIN ac : ac[c] # None /\ Val(ac[c]).female_id = fid

\* SELECT chat_id FROM allowed_chats WHERE female_id=? ORDER BY added_at DESC LIMIT 1
ChatOfFemale(ac, fid) ==
    CHOOSE c \in DOMAIN ac :
        /\ ac[c] # None /\ Val(ac[c]).female_id = fid
        /\ \A d \in DOMAIN ac :
              (ac[d] # None /\ Val(ac[d]).female_id = fid)
                  => Val(ac[c]).added_at >= Val(ac[d]).added_at

(***************************************************************************)
(* Private chat: flow slots and dispatch                                   *)
(***************************************************************************)
\* texts of the reply-keyboard buttons
BTN_SEARCH      == <<"S">>
BTN_GUEST_PAIR  == <<"G">>
BTN_LEGEND_VIEW == <<"L">>
BTN_REPORT      == <<"R">>
BTN_BACK        == <<"B">>
BTN_EXTRA       == <<"E">>
BTN_ADMIN       == <<"A">>
CMD_START       == <<"/">>

Pop(d, uid) == [d EXCEPT ![uid] = None]

Put(d, uid, v) == [d EXCEPT ![uid] = Some(v)]

\* d.get(uid, {}).get("stage")
StageOf(d, uid) == IF d[uid] = None THEN "absent" ELSE Val(d[uid]).stage

\* the first registered message handler whose filter accepts the text
Handler(uid, text) ==
    IF text = CMD_START THEN "start"
    ELSE IF text = BTN_ADMIN THEN "admin_entry"
    ELSE IF text = BTN_SEARCH THEN "action_search_prompt"
    ELSE IF text = BTN_GUEST_PAIR THEN "guest_pair_search_start"
    ELSE IF text = BTN_LEGEND_VIEW THEN "legend_view_start"
    ELSE IF StageOf(GUEST_REPORT_STATE, uid) = "wait_female" THEN "guest_pair_wait_female"
    ELSE IF StageOf(GUEST_REPORT_STATE, uid) = "wait_male" THEN "guest_pair_wait_male"
    ELSE IF text = BTN_EXTRA THEN "extra_menu"
    ELSE IF text = BTN_REPORT THEN "report_start"
    ELSE IF valid_id(text) /\ StageOf(LEGEND_VIEW_STATE, uid) = "wait_female"
         THEN "legend_view_wait_female"
    ELSE IF text = BTN_BACK THEN "back_button"
    ELSE IF valid_id(text) /\ StageOf(REPORT_STATE, uid) = "wait_female"
         THEN "report_wait_female"
    ELSE IF text # <<>> /\ StageOf(REPORT_STATE, uid) = "wait_text"
         THEN "report_wait_text"
    ELSE IF valid_id(text) /\ StageOf(LEGEND_STATE, uid) = "wait_female"
         THEN "legend_wait_female"
    ELSE IF text # <<>> /\ StageOf(LEGEND_STATE, uid) = "wait_text"
         THEN "legend_wait_text"
    ELSE IF StageOf(MALE_SEARCH_STATE, uid) \in {"wait_female_filter", "wait_female_manual"}
         THEN "male_search_wait_female_filter"
    ELSE IF valid_id(text) /\ GUEST_REPORT_STATE[uid] = None THEN "handle_male_search"
    ELSE "unhandled"

\* the event handled and the answer sent; stage names the step of a search
\* handler that ended it
ChatEvent(op, uid, out, stage) ==
    [op |-> op, uid |-> uid, out |-> out, stage |-> stage, data |-> <<>>,
     reply |-> None]

\* the same for a handler that ended in send_results; data is the callback
\* payload handled (empty for a text message)
ReplyEvent(op, uid, stage, data, reply) ==
    [op |-> op, uid |-> uid, out |-> reply.out, stage |-> stage, data |-> data,
     reply |-> Some(reply)]

SetSessions(r, l, lv, ms, gr) ==
    /\ REPORT_STATE' = r
    /\ LEGEND_STATE' = l
    /\ LEGEND_VIEW_STATE' = lv
    /\ MALE_SEARCH_STATE' = ms
    /\ GUEST_REPORT_STATE' = gr

dbVars == <<userVars, logVars, idxVars>>

navVars == <<NAV_STATE, NAV_STACK>>

action_search_prompt(uid, text) ==
    /\ SetSessions(Pop(REPORT_STATE, uid), LEGEND_STATE, LEGEND_VIEW_STATE,
                   MALE_SEARCH_STATE, GUEST_REPORT_STATE)
    /\ ev' = ChatEvent("action_search_prompt", uid, "search_enter_id", "")
    /\ UNCHANGED <<now, dbVars, navVars, results, xVars>>

guest_pair_search_start(uid, text) ==
    /\ IF is_admin(uid) \/ db_is_allowed_user(allowed_users, uid)
       THEN /\ UNCHANGED sessVars
            /\ ev' = ChatEvent("guest_pair_search_start", uid, "none", "")
       ELSE /\ SetSessions(Pop(REPORT_STATE, uid), Pop(LEGEND_STATE, uid),
                           Pop(LEGEND_VIEW_STATE, uid), Pop(MALE_SEARCH_STATE, uid),
                           Put(GUEST_REPORT_STATE, uid,
                               [stage |-> "wait_female", female_id |-> None]))
            /\ UNCHANGED navVars
            /\ ev' = ChatEvent("guest_pair_search_start", uid, "enter_female_id", "")
    /\ UNCHANGED <<now, dbVars, results, xVars>>

legend_view_start(uid, text) ==
    /\ SetSessions(REPORT_STATE, LEGEND_STATE,
                   Put(LEGEND_VIEW_STATE, uid, [stage |-> "wait_female"]),
                   MALE_SEARCH_STATE, Pop(GUEST_REPORT_STATE, uid))
    /\ ev' = ChatEvent("legend_view_start", uid, "legend_view_prompt", "")
    /\ UNCHANGED <<now, dbVars, navVars, results, xVars>>

guest_pair_wait_female(uid, text) ==
    /\ IF is_admin(uid) \/ db_is_allowed_user(allowed_users, uid)
       THEN /\ GUEST_REPORT_STATE' = Pop(GUEST_REPORT_STATE, uid)
            /\ ev' = ChatEvent("guest_pair_wait_female", uid, "none", "")
       ELSE IF ~valid_id(Strip(text))
       THEN /\ UNCHANGED GUEST_REPORT_STATE
            /\ ev' = ChatEvent("guest_pair_wait_female", uid, "bad_id", "")
       ELSE /\ GUEST_REPORT_STATE' =
                  Put(GUEST_REPORT_STATE, uid,
                      [stage |-> "wait_male", female_id |-> Some(Strip(text))])
            /\ ev' = ChatEvent("guest_pair_wait_female", uid, "enter_male_id", "")
    /\ UNCHANGED <<now, dbVars, navVars, REPORT_STATE, LEGEND_STATE,
                   LEGEND_VIEW_STATE, MALE_SEARCH_STATE, results, xVars>>

report_start(uid, text) ==
    /\ SetSessions(Put(REPORT_STATE, uid,
                       [stage |-> "wait_female", chat_id |-> None, female_id |-> None]),
                   LEGEND_STATE, LEGEND_VIEW_STATE, MALE_SEARCH_STATE,
                   Pop(GUEST_REPORT_STATE, uid))
    /\ ev' = ChatEvent("report_start", uid, "report_prompt", "")
    /\ UNCHANGED <<now, dbVars, navVars, results, xVars>>

\* NAV_STATE.get(uid, "root")
NavCurrent(ns, uid) == IF ns[uid] = None THEN "root" ELSE Val(ns[uid])

\* a variant of the push that saves the screen being entered
NavSavedEntered(ns, uid, state) == state

\* the screen nav_push puts on the stack: the current one
NavSaved(ns, uid, state) == NavCurrent(ns, uid)

nav_set(uid, state) ==
    /\ NAV_STATE' = [NAV_STATE EXCEPT ![uid] = Some(state)]
    /\ UNCHANGED NAV_STACK

nav_push(uid, state) ==
    /\ NAV_STACK' = [NAV_STACK EXCEPT ![uid] = Append(@, NavSaved(NAV_STATE, uid, state))]
    /\ NAV_STATE' = [NAV_STATE EXCEPT ![uid] = Some(state)]

\* the start command: the screen is the root, the stack is left as it is
start(uid, text) ==
    /\ nav_set(uid, "root")
    /\ ev' = ChatEvent("start", uid, "start", "")
    /\ UNCHANGED <<now, dbVars, REPORT_STATE, LEGEND_STATE, LEGEND_VIEW_STATE,
                   MALE_SEARCH_STATE, GUEST_REPORT_STATE, results, xVars>>

admin_entry(uid, text) ==
    /\ IF ~is_admin(uid)
       THEN /\ ev' = ChatEvent("admin_entry", uid, "admin_only", "")
            /\ UNCHANGED navVars
       ELSE /\ nav_push(uid, "admin")
            /\ ev' = ChatEvent("admin_entry", uid, "menu", "")
    /\ UNCHANGED <<now, dbVars, REPORT_STATE, LEGEND_STATE, LEGEND_VIEW_STATE,
                   MALE_SEARCH_STATE, GUEST_REPORT_STATE, results, xVars>>

extra_menu(uid, text) ==
    /\ nav_push(uid, "extra")
    /\ ev' = ChatEvent("extra_menu", uid, "menu", "")
    /\ UNCHANGED <<now, dbVars, REPORT_STATE, LEGEND_STATE, LEGEND_VIEW_STATE,
                   MALE_SEARCH_STATE, GUEST_REPORT_STATE, results, xVars>>

\* nav_back
nav_back_state(uid) ==
    IF NAV_STACK[uid] # <<>> THEN NAV_STACK[uid][Len(NAV_STACK[uid])] ELSE "root"

back_button(uid, text) ==
    /\ SetSessions(Pop(REPORT_STATE, uid), Pop(LEGEND_STATE, uid),
                   Pop(LEGEND_VIEW_STATE, uid), Pop(MALE_SEARCH_STATE, uid),
                   Pop(GUEST_REPORT_STATE, uid))
    /\ NAV_STATE' = [NAV_STATE EXCEPT ![uid] = Some(nav_back_state(uid))]
    /\ NAV_STACK' = [NAV_STACK EXCEPT ![uid] =
                        IF @ # <<>> THEN SubSeq(@, 1, Len(@) - 1) ELSE @]
    /\ ev' = ChatEvent("back_button", uid, "menu", "")
    /\ UNCHANGED <<now, dbVars, results, xVars>>

report_wait_female(uid, text) ==
    LET fid == Strip(text) IN
    /\ IF ~FemaleRegistered(allowed_chats, fid)
       THEN /\ REPORT_STATE' = Pop(REPORT_STATE, uid)
            /\ ev' = ChatEvent("report_wait_female", uid, "report_group_not_found", "")
       ELSE /\ REPORT_STATE' =
                  Put(REPORT_STATE, uid,
                      [stage |-> "wait_text",
                       chat_id |-> Some(ChatOfFemale(allowed_chats, fid)),
                       female_id |-> Some(fid)])
            /\ ev' = ChatEvent("report_wait_female", uid, "report_ask_text", "")
    /\ UNCHANGED <<now, dbVars, navVars, LEGEND_STATE, LEGEND_VIEW_STATE,
                   MALE_SEARCH_STATE, GUEST_REPORT_STATE, results, xVars>>

unhandled(uid, text) ==
    /\ ev' = ChatEvent("unhandled", uid, "none", "")
    /\ UNCHANGED <<now, dbVars, sessVars, results, xVars>>

(***************************************************************************)
(* Private chat: searches, legend views and reports                        *)
(***************************************************************************)
\* a key the dictionary does not hold
Missing == <<"no", "key">>

\* time_filter_since; 0 stands for None
time_filter_since(time_filter) ==
    IF time_filter = TF_24H THEN now - DAY_SECONDS ELSE 0

\* if time_filter not in TIME_FILTER_CHOICES: time_filter = "all"
NormTime(time_filter) ==
    IF time_filter \in TIME_FILTER_CHOICES THEN time_filter ELSE TF_ALL

\* an offset past the end is kept
OffsetKept(offset, total) == offset

\* if offset >= total: offset = 0
OffsetCorrected(offset, total) == IF offset >= total THEN 0 ELSE offset

\* the control is issued on the last page too
MoreIssuedAtEnd(new_offset, total) == new_offset <= total

\* if new_offset < total: the `more` button
MoreIssued(new_offset, total) == new_offset < total

Min(a, b) == IF a < b THEN a ELSE b

NotFoundReply ==
    [out |-> "search_not_found", rows |-> <<>>, offset |-> 0, shown |-> 0,
     total |-> 0, more |-> None, filter |-> None]

\* send_results: the responses it may send (one for each order SQL may give
\* the rows): the rows delivered, the corrected offset, the summary
\* shown/total and the payloads of the two controls
send_results(male_id, offset, female_filter, time_filter, allow_filters) ==
    LET tf       == NormTime(time_filter)
        since_ts == time_filter_since(tf)
        total    == count_by_male(messages, message_male_ids, allowed_chats,
                                  male_id, female_filter, since_ts)
        off      == OffsetCorrected(offset, total)
    IN
    IF total = 0 THEN {NotFoundReply}
    ELSE { [out |-> "results", rows |-> rows, offset |-> off,
            shown |-> Min(off + Len(rows), total), total |-> total,
            more |-> IF MoreIssued(off + Len(rows), total)
                     THEN Some(MorePayload(male_id, off + Len(rows), female_filter,
                                           tf, allow_filters))
                     ELSE None,
            filter |-> IF allow_filters
                       THEN Some(FilterPayload(male_id, female_filter, tf))
                       ELSE None] :
           rows \in search_by_male(messages, message_male_ids, allowed_chats,
                                   male_id, PAGE, off, female_filter, since_ts) }

\* MALE_SEARCH_STATE after send_results: untouched when nothing matches,
\* else male_id, female_filter, time_filter are stored and the stage cleared
SendResultsStateT(ms, uid, male_id, female_filter, time_filter) ==
    IF count_by_male(messages, message_male_ids, allowed_chats, male_id,
                     female_filter, time_filter_since(NormTime(time_filter))) = 0
    THEN ms
    ELSE Put(ms, uid, [male_id |-> male_id, female_filter |-> female_filter,
                       time_filter |-> NormTime(time_filter), stage |-> "none"])

\* the same for send_results(message, male_id, 0, ..., time_filter="all")
SendResultsState(ms, uid, male_id, female_filter) ==
    SendResultsStateT(ms, uid, male_id, female_filter, TF_ALL)

handle_male_search(uid, text) ==
    LET male   == Strip(text)
        stop   == SearchGuardStop(uid)
        logged == log_search(searches, uid, "male", now)
        abuse  == AbuseReached(logged, uid) /\ ~is_admin(uid)
        lim    == limited_user(allowed_users, uid)
    IN
    IF \/ StageOf(REPORT_STATE, uid) \in {"wait_female", "wait_text"}
       \/ StageOf(LEGEND_VIEW_STATE, uid) = "wait_female"
    THEN /\ ev' = ChatEvent("handle_male_search", uid, "none", "skip")
         /\ UNCHANGED <<now, dbVars, sessVars, results, xVars>>
    ELSE IF FemaleRegistered(allowed_chats, male)
    THEN /\ searches' = log_search(searches, uid, "female", now)
         /\ ev' = ChatEvent("handle_male_search", uid, "female_reports_count", "female")
         /\ UNCHANGED <<now, userVars, audit_log, ratelimits, idxVars, sessVars,
                        results, xVars>>
    ELSE /\ ratelimits' = IF SpacingCalled(stop)
                          THEN rate_limit_stamp(ratelimits, uid, now) ELSE ratelimits
         /\ searches' = IF SearchRecorded(stop) THEN logged ELSE searches
         /\ allowed_users' =
                IF SearchRecorded(stop) /\ abuse
                THEN set_user_ban(allowed_users, uid, now + BAN_SECONDS)
                ELSE allowed_users
         /\ MALE_SEARCH_STATE' =
                IF stop # "pass" \/ abuse THEN MALE_SEARCH_STATE
                ELSE IF lim THEN SendResultsState(MALE_SEARCH_STATE, uid, male, None)
                ELSE Put(MALE_SEARCH_STATE, uid,
                         [male_id |-> male, female_filter |-> None,
                          time_filter |-> TF_ALL, stage |-> "wait_female_filter"])
         /\ ev' \in
                IF stop = "ban"
                THEN {ChatEvent("handle_male_search", uid, "banned", "ban")}
                ELSE IF stop = "spacing"
                THEN {ChatEvent("handle_male_search", uid, "rate_limited", "spacing")}
                ELSE IF stop = "quota"
                THEN {ChatEvent("handle_male_search", uid,
                                "limited_search_quota", "quota")}
                ELSE IF abuse
                THEN {ChatEvent("handle_male_search", uid, "banned", "abuse")}
                ELSE IF lim
                THEN { ReplyEvent("handle_male_search", uid, "done", <<>>, r) :
                         r \in send_results(male, 0, None, TF_ALL, FALSE) }
                ELSE {ChatEvent("handle_male_search", uid,
                                "male_filter_prompt_female", "done")}
         /\ UNCHANGED <<now, admins, settings, audit_log, idxVars, navVars,
                        REPORT_STATE, LEGEND_STATE, LEGEND_VIEW_STATE,
                        GUEST_REPORT_STATE, results, xVars>>

guest_pair_wait_male(uid, text) ==
    LET male      == Strip(text)
        female_id == Val(GUEST_REPORT_STATE[uid]).female_id
        stop      == SearchGuardStop(uid)
        logged    == log_search(searches, uid, "guest_pair", now)
        lim       == limited_user(allowed_users, uid)
        abuse     == lim /\ AbuseReached(logged, uid)
    IN
    IF is_admin(uid) \/ db_is_allowed_user(allowed_users, uid)
    THEN /\ GUEST_REPORT_STATE' = Pop(GUEST_REPORT_STATE, uid)
         /\ ev' = ChatEvent("guest_pair_wait_male", uid, "none", "skip")
         /\ UNCHANGED <<now, dbVars, navVars, REPORT_STATE, LEGEND_STATE,
                        LEGEND_VIEW_STATE, MALE_SEARCH_STATE, results, xVars>>
    ELSE IF female_id = None
    THEN /\ GUEST_REPORT_STATE' = Pop(GUEST_REPORT_STATE, uid)
         /\ ev' = ChatEvent("guest_pair_wait_male", uid, "enter_female_id", "skip")
         /\ UNCHANGED <<now, dbVars, navVars, REPORT_STATE, LEGEND_STATE,
                        LEGEND_VIEW_STATE, MALE_SEARCH_STATE, results, xVars>>
    ELSE IF ~valid_id(male)
    THEN /\ ev' = ChatEvent("guest_pair_wait_male", uid, "bad_id", "skip")
         /\ UNCHANGED <<now, dbVars, sessVars, results, xVars>>
    ELSE /\ ratelimits' = IF SpacingCalled(stop)
                          THEN rate_limit_stamp(ratelimits, uid, now) ELSE ratelimits
         /\ searches' = IF SearchRecorded(stop) THEN logged ELSE searches
         /\ allowed_users' =
                IF SearchRecorded(stop) /\ abuse
                THEN set_user_ban(allowed_users, uid, now + BAN_SECONDS)
                ELSE allowed_users
         /\ GUEST_REPORT_STATE' =
                IF stop = "spacing" THEN GUEST_REPORT_STATE
                ELSE Pop(GUEST_REPORT_STATE, uid)
         /\ MALE_SEARCH_STATE' =
                IF stop # "pass" \/ abuse THEN MALE_SEARCH_STATE
                ELSE SendResultsState(MALE_SEARCH_STATE, uid, male, female_id)
         /\ ev' \in
                IF stop = "ban"
                THEN {ChatEvent("guest_pair_wait_male", uid, "banned", "ban")}
                ELSE IF stop = "spacing"
                THEN {ChatEvent("guest_pair_wait_male", uid, "rate_limited", "spacing")}
                ELSE IF stop = "quota"
                THEN {ChatEvent("guest_pair_wait_male", uid,
                                "limited_search_quota", "quota")}
                ELSE IF abuse
                THEN {ChatEvent("guest_pair_wait_male", uid, "banned", "abuse")}
                ELSE { ReplyEvent("guest_pair_wait_male", uid, "done", <<>>, r) :
                         r \in send_results(male, 0, female_id, TF_ALL, FALSE) }
         /\ UNCHANGED <<now, admins, settings, audit_log, idxVars, navVars,
                        REPORT_STATE, LEGEND_STATE, LEGEND_VIEW_STATE, results, xVars>>

legend_view_wait_female(uid, text) ==
    LET female_id == Strip(text)
        has_report_access == is_admin(uid) \/ db_is_allowed_user(allowed_users, uid)
        over == /\ ~has_report_access
                /\ QuotaReached(
                       CountSearches(searches, uid, {"legend_view"},
                                     strftime(now - DAY_SECONDS)),
                       get_setting_int(settings, "guest_limit_legend", DEFAULT_LIMIT_LEGEND))
        out == IF over THEN "legend_view_limit"
               ELSE IF get_female_legend(female_legends, female_id) = None
               THEN "legend_view_not_found"
               ELSE "legend_shown"
    IN
    /\ searches' = IF out = "legend_shown"
                   THEN log_search(searches, uid, "legend_view", now) ELSE searches
    /\ LEGEND_VIEW_STATE' = Pop(LEGEND_VIEW_STATE, uid)
    /\ ev' = ChatEvent("legend_view_wait_female", uid, out, "")
    /\ UNCHANGED <<now, userVars, audit_log, ratelimits, idxVars, navVars,
                   REPORT_STATE, LEGEND_STATE, MALE_SEARCH_STATE,
                   GUEST_REPORT_STATE, results, xVars>>

\* "Отчёт от {signer}:\n\n"
REPORT_PREFIX == <<"r", ":", " ">>

\* message_id of the message bot.send_message has posted to the chat
SentMessageId(msgs, chat_id) ==
    1 + Cardinality({i \in 1..Len(msgs) : msgs[i].chat_id = chat_id})

report_wait_text(uid, text) ==
    LET st       == Val(REPORT_STATE[uid])
        body     == Strip(text)
        out_text == REPORT_PREFIX \o body
        over == /\ ~is_admin(uid) /\ ~db_is_allowed_user(allowed_users, uid)
                /\ QuotaReached(
                       CountReports(audit_log, uid, strftime(now - DAY_SECONDS)),
                       get_setting_int(settings, "guest_limit_report", DEFAULT_LIMIT_REPORT))
        out == IF body = <<>> THEN "report_empty"
               ELSE IF over THEN "limited_report_quota"
               ELSE "report_sent"
        sent_id == SentMessageId(messages, Val(st.chat_id))
        saved   == save_message(messages, Val(st.chat_id), sent_id, uid, now, out_text)
    IN
    /\ messages' = IF out = "report_sent" THEN saved ELSE messages
    /\ message_male_ids' =
           IF out = "report_sent"
           THEN link_male_ids(message_male_ids,
                              MessageRowId(saved, Val(st.chat_id), sent_id),
                              extract_male_ids(out_text))
           ELSE message_male_ids
    /\ audit_log' = IF out = "report_sent"
                    THEN log_audit(audit_log, uid, "report_send", Val(st.female_id), now)
                    ELSE audit_log
    /\ REPORT_STATE' = IF out = "report_empty" THEN REPORT_STATE
                       ELSE Pop(REPORT_STATE, uid)
    /\ ev' = ChatEvent("report_wait_text", uid, out, "")
    /\ results' = [k \in DOMAIN results |-> None]
    /\ UNCHANGED <<now, userVars, searches, ratelimits, allowed_chats, female_legends,
                   navVars, LEGEND_STATE, LEGEND_VIEW_STATE, MALE_SEARCH_STATE,
                   GUEST_REPORT_STATE, xVars>>

male_search_wait_female_filter(uid, text) ==
    LET state == Val(MALE_SEARCH_STATE[uid])
        ftext == Strip(text)
        female_filter == IF valid_id(ftext) THEN Some(ftext) ELSE None
    IN
    /\ MALE_SEARCH_STATE' =
           Put(MALE_SEARCH_STATE, uid,
               [state EXCEPT !.female_filter = female_filter,
                             !.stage = "wait_period_filter"])
    /\ ev' = ChatEvent("male_search_wait_female_filter", uid,
                       "male_filter_prompt_period", "")
    /\ UNCHANGED <<now, dbVars, navVars, REPORT_STATE, LEGEND_STATE,
                   LEGEND_VIEW_STATE, GUEST_REPORT_STATE, results, xVars>>

\* the group filter cb_more would take from the actor's dictionary
MoreFilterFromState(ms, uid, args) ==
    IF ms[uid] # None /\ Val(ms[uid]).female_filter # Missing
    THEN Val(ms[uid]).female_filter
    ELSE args.female_filter

\* cb_more passes the group filter parsed from the payload
MoreFilterUsed(ms, uid, args) == args.female_filter

\* callback more:...: the next page for the arguments of the payload; the
\* stage of the event tells whether the actor had a dictionary in
\* MALE_SEARCH_STATE
cb_more(uid, data) ==
    LET parsed == cb_more_args(data)
        args   == Val(parsed)
        ff     == MoreFilterUsed(MALE_SEARCH_STATE, uid, args)
    IN
    /\ IF parsed = None
       THEN \* parts[2] or int(parts[2]) raised; the try has a finally and no
            \* except: the callback is answered and the exception goes on
            /\ ev' = [ChatEvent("cb_more", uid, "raised", "unparsed")
                         EXCEPT !.data = data]
            /\ UNCHANGED MALE_SEARCH_STATE
       ELSE /\ ev' \in { ReplyEvent("cb_more", uid,
                                     IF MALE_SEARCH_STATE[uid] = None THEN "no_state"
                                     ELSE "state", data, r) :
                          r \in send_results(args.male_id, args.offset, ff,
                                             args.time_filter, args.allow_filters) }
            /\ MALE_SEARCH_STATE' =
                  SendResultsStateT(MALE_SEARCH_STATE, uid, args.male_id, ff,
                                    args.time_filter)
    /\ UNCHANGED <<now, dbVars, navVars, REPORT_STATE, LEGEND_STATE,
                   LEGEND_VIEW_STATE, GUEST_REPORT_STATE, results, xVars>>

\* MALE_SEARCH_STATE.setdefault(uid, {...}) with male_id stored
SearchStateOf(ms, uid, male_id) ==
    IF ms[uid] = None
    THEN [male_id |-> male_id, female_filter |-> Missing, time_filter |-> Missing,
          stage |-> "none"]
    ELSE [Val(ms[uid]) EXCEPT !.male_id = male_id]

\* the menu takes the group filter of the payload
MenuFilterFromPayload(state, female_token) == FiltOfToken(female_token)

\* show_filter_menu: if "female_filter" not in state: state["female_filter"] = ...
MenuFilter(state, female_token) ==
    IF state.female_filter = Missing THEN FiltOfToken(female_token)
    ELSE state.female_filter

\* callback mfilt:<male_id>:<filt_token>:<time_filter>: show_filter_menu
cb_filter_menu(uid, data) ==
    LET parts == Split(data)
        state == SearchStateOf(MALE_SEARCH_STATE, uid, parts[2])
    IN
    /\ Len(parts) = 4 /\ valid_id(parts[2]) /\ parts[3] # <<>>
    /\ MALE_SEARCH_STATE' =
           Put(MALE_SEARCH_STATE, uid,
               [state EXCEPT !.female_filter = MenuFilter(state, parts[3]),
                             !.time_filter = IF state.time_filter = Missing
                                             THEN NormTime(parts[4])
                                             ELSE state.time_filter])
    /\ ev' = [ChatEvent("cb_filter_menu", uid, "filter_menu_title", "")
                 EXCEPT !.data = data]
    /\ UNCHANGED <<now, dbVars, navVars, REPORT_STATE, LEGEND_STATE,
                   LEGEND_VIEW_STATE, GUEST_REPORT_STATE, results, xVars>>

\* f"mftime:{male_id}:{code}" of the filter menu
TimePayload(male_id, code) ==
    <<"m", "f", "t", "i", "m", "e", ":">> \o male_id \o <<":">> \o code

\* f"mftime:{male_id}:{code}:init" of the period prompt
TimePayloadInit(male_id, code) ==
    TimePayload(male_id, code) \o <<":", "i", "n", "i", "t">>

\* callback mftime:<male_id>:<code>[:init]
cb_filter_set_time(uid, data) ==
    LET parts == Split(data)
        male_id == parts[2]
        time_filter == NormTime(parts[3])
        state == SearchStateOf(MALE_SEARCH_STATE, uid, male_id)
        female_filter == IF state.female_filter = Missing THEN None
                         ELSE state.female_filter
        timed == Put(MALE_SEARCH_STATE, uid,
                     [state EXCEPT !.time_filter = time_filter,
                                   !.stage = IF state.stage = "wait_period_filter"
                                             THEN "none" ELSE state.stage])
    IN
    /\ Len(parts) \in {3, 4} /\ valid_id(male_id)
    /\ ev' \in { ReplyEvent("cb_filter_set_time", uid, "", data, r) :
                   r \in send_results(male_id, 0, female_filter, time_filter, TRUE) }
    /\ MALE_SEARCH_STATE' =
           SendResultsStateT(timed, uid, male_id, female_filter, time_filter)
    /\ UNCHANGED <<now, dbVars, navVars, REPORT_STATE, LEGEND_STATE,
                   LEGEND_VIEW_STATE, GUEST_REPORT_STATE, results, xVars>>

\* the process is started again: the dictionaries of bot.py are empty, the
\* database is the one left behind
restart ==
    /\ NAV_STATE' = [u \in Users |-> None]
    /\ NAV_STACK' = [u \in Users |-> <<>>]
    /\ SetSessions([u \in Users |-> None], [u \in Users |-> None],
                   [u \in Users |-> None], [u \in Users |-> None],
                   [u \in Users |-> None])
    /\ ev' = ChatEvent("restart", "", "none", "")
    /\ UNCHANGED <<now, dbVars, results, xVars>>

\* LEGEND_STATE[uid] = {"mode": mode, "stage": "wait_female"}
LegendPrompted(mode) ==
    [mode |-> mode, stage |-> "wait_female", female_id |-> None, chat_id |-> None,
     previous_content |-> <<>>]

\* button "add legend"
legend_add_prompt(uid) ==
    /\ LEGEND_STATE' = IF is_admin(uid) THEN Put(LEGEND_STATE, uid, LegendPrompted("add"))
                       ELSE LEGEND_STATE
    /\ ev' = ChatEvent("legend_add_prompt", uid,
                       IF is_admin(uid) THEN "enter_female_id" ELSE "none", "")
    /\ UNCHANGED <<now, dbVars, navVars, REPORT_STATE, LEGEND_VIEW_STATE,
                   MALE_SEARCH_STATE, GUEST_REPORT_STATE, results, xVars>>

\* button "edit legend"
legend_edit_prompt(uid) ==
    /\ LEGEND_STATE' = IF is_admin(uid) THEN Put(LEGEND_STATE, uid, LegendPrompted("edit"))
                       ELSE LEGEND_STATE
    /\ ev' = ChatEvent("legend_edit_prompt", uid,
                       IF is_admin(uid) THEN "enter_female_id" ELSE "none", "")
    /\ UNCHANGED <<now, dbVars, navVars, REPORT_STATE, LEGEND_VIEW_STATE,
                   MALE_SEARCH_STATE, GUEST_REPORT_STATE, results, xVars>>

\* legend_wait_female: the group and the legend are looked up, the content
\* found is kept as previous_content
legend_wait_female(uid, text) ==
    LET st         == Val(LEGEND_STATE[uid])
        female_id  == Strip(text)
        found      == FemaleRegistered(allowed_chats, female_id)
        legend_row == get_female_legend(female_legends, female_id)
        out == IF ~is_admin(uid) THEN "none"
               ELSE IF ~found THEN "legend_no_chat"
               ELSE IF st.mode = "add" /\ legend_row # None THEN "legend_exists"
               ELSE IF st.mode = "edit" /\ legend_row = None THEN "legend_missing"
               ELSE "legend_enter_text"
    IN
    /\ LEGEND_STATE' =
           IF out = "legend_enter_text"
           THEN Put(LEGEND_STATE, uid,
                    [mode |-> st.mode, stage |-> "wait_text",
                     female_id |-> Some(female_id),
                     chat_id |-> Some(ChatOfFemale(allowed_chats, female_id)),
                     previous_content |->
                         IF legend_row # None THEN Val(legend_row).content ELSE <<>>])
           ELSE LEGEND_STATE
    /\ ev' = ChatEvent("legend_wait_female", uid, out, st.mode)
    /\ UNCHANGED <<now, dbVars, navVars, REPORT_STATE, LEGEND_VIEW_STATE,
                   MALE_SEARCH_STATE, GUEST_REPORT_STATE, results, xVars>>

\* if mode == "edit" and body == previous_content
LegendUnchanged(st, body) ==
    st.mode = "edit" /\ body = Strip(st.previous_content)

\* the flow is over after a failed send too
LegendFlowEndedOnFailure(out) ==
    out \in {"legend_sent", "legend_no_chat", "legend_send_failed"}

\* LEGEND_STATE.pop(uid, None): when the flow data is broken and after the save
LegendFlowEnded(out) == out \in {"legend_sent", "legend_no_chat"}

\* legend_wait_text: the text is sent to the group and stored; sent is the
\* message id bot.send_message returned, None when it raised
legend_wait_text(uid, text, sent) ==
    LET st   == Val(LEGEND_STATE[uid])
        body == Strip(text)
        out == IF ~is_admin(uid) THEN "none"
               ELSE IF body = <<>> THEN "legend_empty"
               ELSE IF st.chat_id = None \/ st.female_id = None THEN "legend_no_chat"
               ELSE IF LegendUnchanged(st, body) THEN "legend_unchanged"
               ELSE IF sent = None THEN "legend_send_failed"
               ELSE "legend_sent"
    IN
    /\ female_legends' =
           IF out = "legend_sent"
           THEN upsert_female_legend(female_legends, Val(st.female_id),
                                     Val(st.chat_id), body, Val(sent))
           ELSE female_legends
    /\ audit_log' =
           IF out = "legend_sent"
           THEN log_audit(audit_log, uid,
                          IF st.mode = "add" THEN "legend_add" ELSE "legend_edit",
                          Val(st.female_id), now)
           ELSE audit_log
    /\ LEGEND_STATE' = IF LegendFlowEnded(out)
                       THEN Pop(LEGEND_STATE, uid) ELSE LEGEND_STATE
    /\ ev' = [ChatEvent("legend_wait_text", uid, out, st.mode)
                 EXCEPT !.data = body,
                        !.reply = IF out = "legend_sent" THEN sent ELSE None]
    /\ UNCHANGED <<now, userVars, searches, ratelimits, messages, message_male_ids,
                   allowed_chats, navVars, REPORT_STATE, LEGEND_VIEW_STATE, MALE_SEARCH_STATE,
                   GUEST_REPORT_STATE, results, xVars>>

\* a handler suspended at await bot.send_message: its locals
ReportCall(uid, st, body) ==
    [op |-> "report_wait_text", uid |-> uid, st |-> st, text |-> body]

\* report_wait_text up to await bot.send_message: the text is not blank and
\* the quota check passed; the message goes out and the handler is suspended
report_wait_text_send(uid, text) ==
    LET st   == Val(REPORT_STATE[uid])
        body == Strip(text)
        over == /\ ~is_admin(uid) /\ ~db_is_allowed_user(allowed_users, uid)
                /\ QuotaReached(
                       CountReports(audit_log, uid, strftime(now - DAY_SECONDS)),
                       get_setting_int(settings, "guest_limit_report", DEFAULT_LIMIT_REPORT))
    IN
    /\ body # <<>> /\ ~over
    /\ inflight' = Append(inflight, ReportCall(uid, st, body))
    /\ ev' = ChatEvent("report_wait_text", uid, "none", "send")
    /\ UNCHANGED <<now, dbVars, sessVars, results, xtext, xids, ticks, ADM_PENDING,
                   tz_offset>>

\* drop the i-th element
Without(s, i) == SubSeq(s, 1, i - 1) \o SubSeq(s, i + 1, Len(s))

\* report_wait_text after await bot.send_message: the i-th suspended handler
\* goes on with its locals
report_wait_text_sent(i) ==
    LET call     == inflight[i]
        uid      == call.uid
        st       == call.st
        out_text == REPORT_PREFIX \o call.text
        sent_id  == SentMessageId(messages, Val(st.chat_id))
        saved    == save_message(messages, Val(st.chat_id), sent_id, uid, now, out_text)
    IN
    /\ messages' = saved
    /\ message_male_ids' =
           link_male_ids(message_male_ids,
                         MessageRowId(saved, Val(st.chat_id), sent_id),
                         extract_male_ids(out_text))
    /\ audit_log' = log_audit(audit_log, uid, "report_send", Val(st.female_id), now)
    /\ REPORT_STATE' = Pop(REPORT_STATE, uid)
    /\ inflight' = Without(inflight, i)
    /\ ev' = ChatEvent("report_wait_text", uid, "report_sent", "sent")
    /\ results' = [k \in DOMAIN results |-> None]
    /\ UNCHANGED <<now, userVars, searches, ratelimits, allowed_chats, female_legends,
                   navVars, LEGEND_STATE, LEGEND_VIEW_STATE, MALE_SEARCH_STATE,
                   GUEST_REPORT_STATE, xtext, xids, ticks, ADM_PENDING,
                   tz_offset>>

\* callback adudY:<user_id>:<admin_id>:<page>
cb_admin_user_delete_yes(uid, user_id) ==
    /\ IF ~is_superadmin(uid)
       THEN /\ UNCHANGED allowed_users
            /\ ev' = ChatEvent("cb_admin_user_delete_yes", uid, "no_rights", "")
       ELSE /\ allowed_users' = remove_allowed_user(allowed_users, user_id)
            /\ ev' = ChatEvent("cb_admin_user_delete_yes", uid, "deleted", "")
    /\ audit_log' = IF is_superadmin(uid)
                    THEN log_audit(audit_log, uid, "remove_user_from_all_users_panel",
                                   user_id, now)
                    ELSE audit_log
    /\ UNCHANGED <<now, admins, settings, searches, ratelimits, idxVars, sessVars,
                   results, xVars>>

(***************************************************************************)
(* Private-chat specifications.  The database holds one registered group   *)
(* with a legend and one indexed message, and a burst of searches the      *)
(* guest made before the process started.                                  *)
(***************************************************************************)
\* steps of the clock in one behaviour
MaxTicks == 2

\* rows added to searches and to audit_log in one behaviour
MaxNewSearches == 2
MaxNewReports == 2

\* guest limits stored by guest_limits_set
SMALL_LIMIT_SEARCH == 1
SMALL_LIMIT_REPORT == 1
SMALL_LIMIT_LEGEND == 1

\* searches of the guest already stored: one every MIN_INTERVAL seconds, the
\* last one MIN_INTERVAL seconds before the start
BurstLen == ABUSE_THRESHOLD - 2

ChatUsers == {"g"}

ChatTexts == {BTN_SEARCH, BTN_GUEST_PAIR, BTN_LEGEND_VIEW, BTN_REPORT, BTN_BACK,
              TokA, TokC, Plain}

TickSteps == {MIN_INTERVAL, BAN_SECONDS, DAY_SECONDS}

SmallLimit(k) ==
    CASE k = "guest_limit_search" -> SMALL_LIMIT_SEARCH
      [] k = "guest_limit_report" -> SMALL_LIMIT_REPORT
      [] k = "guest_limit_legend" -> SMALL_LIMIT_LEGEND

\* the stored rows; the host's offset is one of Z
InitStoredIn(Z) ==
    /\ now = T0
    /\ admins = {"ad"}
    /\ searches = [k \in 1..BurstLen |->
                      [user_id |-> "g", query_type |-> "male",
                       created_at |->
                           CURRENT_TIMESTAMP(T0 - MIN_INTERVAL * (BurstLen + 1 - k))]]
    /\ audit_log = <<>>
    /\ ratelimits = [u \in Users |-> IF u = "g" THEN Some(T0 - MIN_INTERVAL) ELSE None]
    /\ allowed_chats = [c \in Chats |->
           IF c = "c1"
           THEN Some([female_id |-> TokC, added_by |-> "ad", added_at |-> T0 - 1])
           ELSE None]
    /\ female_legends = [f \in FemaleIds |->
           IF f = TokC
           THEN Some([chat_id |-> "c1", content |-> format_legend_text(Plain),
                      message_id |-> 0])
           ELSE None]
    /\ messages = <<StoredRow(1, 0)>>
    /\ message_male_ids = {<<1, TokA>>}
    /\ InitSessions /\ InitMiscIn(Z)

InitStored == InitStoredIn({0})

\* the guest is not on the allow-list; the guest limits are the defaults or
\* small stored values
InitGuard ==
    /\ InitStored
    /\ allowed_users = [u \in Users |-> IF u \in SUPERADMINS THEN AllowedRow(u) ELSE None]
    /\ settings \in { [k \in SettingKeys |-> None],
                      [k \in SettingKeys |-> Some(SmallLimit(k))] }

\* the actor is a guest or an allow-listed user; default limits
InitFlow ==
    /\ InitStored
    /\ allowed_users \in
          { [u \in Users |-> IF u \in SUPERADMINS THEN AllowedRow(u) ELSE None],
            [u \in Users |-> IF u \in SUPERADMINS \cup ChatUsers
                             THEN AllowedRow("sa") ELSE None] }
    /\ settings = [k \in SettingKeys |-> None]

\* a private message reaches the handler the dispatcher picks
Dispatch(name, uid, text) == Handler(uid, text) = name

\* the logs stay within the rows of the model
Room ==
    /\ Len(searches') <= BurstLen + MaxNewSearches
    /\ Len(audit_log') <= MaxNewReports

ActionSearchPrompt ==
    \E u \in ChatUsers, t \in ChatTexts :
        Dispatch("action_search_prompt", u, t) /\ action_search_prompt(u, t)

GuestPairSearchStart ==
    \E u \in ChatUsers, t \in ChatTexts :
        Dispatch("guest_pair_search_start", u, t) /\ guest_pair_search_start(u, t)

LegendViewStart ==
    \E u \in ChatUsers, t \in ChatTexts :
        Dispatch("legend_view_start", u, t) /\ legend_view_start(u, t)

GuestPairWaitFemaleIn(T) ==
    \E u \in ChatUsers, t \in T :
        Dispatch("guest_pair_wait_female", u, t) /\ guest_pair_wait_female(u, t)

GuestPairWaitFemale == GuestPairWaitFemaleIn(ChatTexts)

\* the guest names the registered group, or sends something that is no id
GuestPairWaitFemaleGroup == GuestPairWaitFemaleIn({TokC, Plain})

GuestPairWaitMale ==
    \E u \in ChatUsers, t \in ChatTexts :
        Dispatch("guest_pair_wait_male", u, t) /\ guest_pair_wait_male(u, t) /\ Room

ReportStart ==
    \E u \in ChatUsers, t \in ChatTexts :
        Dispatch("report_start", u, t) /\ report_start(u, t)

LegendViewWaitFemale ==
    \E u \in ChatUsers, t \in ChatTexts :
        Dispatch("legend_view_wait_female", u, t) /\ legend_view_wait_female(u, t) /\ Room

BackButton ==
    \E u \in ChatUsers, t \in ChatTexts :
        Dispatch("back_button", u, t) /\ back_button(u, t)

ReportWaitFemale ==
    \E u \in ChatUsers, t \in ChatTexts :
        Dispatch("report_wait_female", u, t) /\ report_wait_female(u, t)

ReportWaitText ==
    \E u \in ChatUsers, t \in ChatTexts :
        Dispatch("report_wait_text", u, t) /\ report_wait_text(u, t) /\ Room

MaleSearchWaitFemaleFilter ==
    \E u \in ChatUsers, t \in ChatTexts :
        Dispatch("male_search_wait_female_filter", u, t)
            /\ male_search_wait_female_filter(u, t)

HandleMaleSearchIn(T) ==
    \E u \in ChatUsers, t \in T :
        Dispatch("handle_male_search", u, t) /\ handle_male_search(u, t) /\ Room

HandleMaleSearch == HandleMaleSearchIn(ChatTexts)

\* the guest searches for a subject (never for the id of a registered group)
HandleMaleSearchSubject == HandleMaleSearchIn({TokA})

Unhandled ==
    \E u \in ChatUsers, t \in ChatTexts :
        Dispatch("unhandled", u, t) /\ unhandled(u, t)

\* the superadmin confirms the removal of a user shown on the users panel
AdminUserDelete ==
    \E u \in ChatUsers :
        db_is_allowed_user(allowed_users, u) /\ cb_admin_user_delete_yes("sa", u)

\* time passes between two updates
TickIn(S) ==
    \E d \in S :
        /\ ticks < MaxTicks
        /\ ticks' = ticks + 1
        /\ now' = now + d
        /\ ev' = ChatEvent("tick", "", "none", "")
        /\ UNCHANGED <<dbVars, sessVars, results, xtext, xids, inflight, ADM_PENDING,
                       tz_offset>>

Tick == TickIn(TickSteps)

\* the spacing interval or a whole day passes
TickDay == TickIn({MIN_INTERVAL, DAY_SECONDS})

(***************************************************************************)
(* SpecFlow: every button and input of the private chat, at one instant    *)
(***************************************************************************)
NextFlow ==
    \/ ActionSearchPrompt \/ GuestPairSearchStart \/ LegendViewStart
    \/ GuestPairWaitFemale \/ GuestPairWaitMale \/ ReportStart
    \/ LegendViewWaitFemale \/ BackButton \/ ReportWaitFemale \/ ReportWaitText
    \/ MaleSearchWaitFemaleFilter \/ HandleMaleSearch \/ Unhandled

SpecFlow == InitFlow /\ [][NextFlow]_vars

(***************************************************************************)
(* SpecGuard: direct and guest-pair searches of a guest while time passes  *)
(* and a superadmin removes users                                          *)
(***************************************************************************)
NextGuard ==
    \/ HandleMaleSearchSubject
    \/ GuestPairSearchStart \/ GuestPairWaitFemaleGroup \/ GuestPairWaitMale
    \/ AdminUserDelete \/ Tick

SpecGuard == InitGuard /\ [][NextGuard]_vars

(***************************************************************************)
(* SpecLimits: searches, legend views and reports of a guest while time    *)
(* passes and a superadmin removes users                                   *)
(***************************************************************************)
NextLimits ==
    \/ HandleMaleSearchSubject
    \/ LegendViewStart \/ LegendViewWaitFemale
    \/ ReportStart \/ ReportWaitFemale \/ ReportWaitText
    \/ AdminUserDelete \/ TickDay

SpecLimits == InitGuard /\ [][NextLimits]_vars

(***************************************************************************)
(* SpecPages: an administrator searches, filters and pages through the     *)
(* results of one subject while time passes and the process is restarted   *)
(***************************************************************************)
\* rows of the subject in the index
PageRows == 8

\* rows that leave the last 24 hours while the behaviour runs
AgingRows == 4

\* all rows but the second belong to the group of TokC; the first AgingRows
\* rows are almost a day old
PageRow(k) ==
    [chat_id |-> IF k = 2 THEN "c2" ELSE "c1", message_id |-> k, sender_id |-> "g",
     date |-> IF k <= AgingRows THEN T0 - DAY_SECONDS + k - 1 ELSE T0 - 100 + k,
     text |-> Plain \o Sp \o TokA]

InitPages ==
    /\ now = T0
    /\ InitUsers /\ InitLogs /\ InitSessions /\ InitMisc
    /\ allowed_chats = [c \in Chats |->
           Some([female_id |-> IF c = "c1" THEN TokC ELSE TokB, added_by |-> "ad",
                 added_at |-> T0 - 1])]
    /\ female_legends = [f \in FemaleIds |-> None]
    /\ messages = [k \in 1..PageRows |-> PageRow(k)]
    /\ message_male_ids = {<<k, TokA>> : k \in 1..PageRows}

\* the controls of earlier result messages: they stay in the chat and can be
\* pressed at any time
PageFilters == {None, Some(TokC)}

MoreData ==
    { MorePayload(TokA, PAGE, f, t, TRUE) :
        f \in PageFilters, t \in TIME_FILTER_CHOICES }
    \cup { MorePayloadNoFlag(TokA, PAGE, Some(TokC), TF_24H) }

FilterData ==
    { FilterPayload(TokA, f, t) : f \in PageFilters, t \in TIME_FILTER_CHOICES }

TimeData ==
    { TimePayload(TokA, t) : t \in TIME_FILTER_CHOICES }
    \cup { TimePayloadInit(TokA, TF_24H) }

PageUsers == {"ad"}

\* one search of the administrator in a behaviour
AdminSearch ==
    \E u \in PageUsers :
        /\ Dispatch("handle_male_search", u, TokA) /\ handle_male_search(u, TokA)
        /\ Len(searches') <= 1

AdminFemaleFilter ==
    \E u \in PageUsers, t \in {TokC, Plain} :
        Dispatch("male_search_wait_female_filter", u, t)
            /\ male_search_wait_female_filter(u, t)

\* the administrator or another account presses a `more` control
MoreUsers == {"ad", "sa"}

CbMore == \E u \in MoreUsers, d \in MoreData : cb_more(u, d)

CbFilterMenu == \E u \in PageUsers, d \in FilterData : cb_filter_menu(u, d)

CbFilterSetTime == \E u \in PageUsers, d \in TimeData : cb_filter_set_time(u, d)

\* a quarter of an hour passes: the first AgingRows rows leave the last 24
\* hours
TickAge == TickIn({BAN_SECONDS})

NextPages ==
    \/ AdminSearch \/ AdminFemaleFilter
    \/ CbMore \/ CbFilterMenu \/ CbFilterSetTime
    \/ restart \/ TickAge

SpecPages == InitPages /\ [][NextPages]_vars

(***************************************************************************)
(* SpecGuest: a guest searches directly and through the guest pair chain   *)
(* and pages through the results while time passes                         *)
(***************************************************************************)
\* the index of InitPages; the guest is not on the allow-list, the guest
\* limits are the defaults and nothing has been searched yet
InitGuest == InitPages

\* the `more` controls send_results issues to a guest
GuestMoreData == { MorePayload(TokA, PAGE, f, TF_ALL, FALSE) : f \in PageFilters }

CbMoreGuest == \E u \in ChatUsers, d \in GuestMoreData : cb_more(u, d)

\* the spacing interval passes
TickSpacing == TickIn({MIN_INTERVAL})

NextGuest ==
    \/ HandleMaleSearchSubject
    \/ GuestPairSearchStart \/ GuestPairWaitFemaleGroup \/ GuestPairWaitMale
    \/ CbMoreGuest \/ TickSpacing

SpecGuest == InitGuest /\ [][NextGuest]_vars

(***************************************************************************)
(* SpecLegend: two administrators add and edit the legend of one group     *)
(* while hashtag messages arrive in the group                              *)
(***************************************************************************)
\* the other text an administrator submits
Other == <<"y", "o">>

\* the group c1 of TokC is registered; it has no legend or the legend Plain
InitLegend ==
    /\ now = T0
    /\ InitUsers /\ InitLogs /\ InitIndexEmpty /\ InitSessions /\ InitMisc
    /\ allowed_chats = [c \in Chats |->
           IF c = "c1"
           THEN Some([female_id |-> TokC, added_by |-> "ad", added_at |-> T0 - 1])
           ELSE None]
    /\ female_legends \in
          { [f \in FemaleIds |-> None],
            [f \in FemaleIds |->
                IF f = TokC
                THEN Some([chat_id |-> "c1", content |-> Plain, message_id |-> 0])
                ELSE None] }

LegendAdmins == {"sa", "ad"}

\* what the administrators submit as legend text: two plain texts and the
\* text a hashtag message of the group is stored as
LegendTexts == {Plain, Other, format_legend_text(LEGEND_HASHTAG \o Other)}

LegendAddPrompt == \E u \in LegendAdmins : legend_add_prompt(u)

LegendEditPrompt == \E u \in LegendAdmins : legend_edit_prompt(u)

LegendWaitFemale ==
    \E u \in LegendAdmins, t \in {TokC, TokB} :
        Dispatch("legend_wait_female", u, t) /\ legend_wait_female(u, t)

LegendWaitText ==
    \E u \in LegendAdmins, t \in LegendTexts :
        \E sent \in {None, Some(SentMessageId(messages, "c1"))} :
            Dispatch("legend_wait_text", u, t) /\ legend_wait_text(u, t, sent)

\* the member of the group who posts there: not an administrator
GroupMember == "g"

\* the member posts a message with the hashtag in the group
HashtagMessage ==
    \E m \in MessageIds :
        on_group_message("c1", m, GroupMember, LEGEND_HASHTAG \o Other)

NextLegend ==
    \/ LegendAddPrompt \/ LegendEditPrompt \/ LegendWaitFemale \/ LegendWaitText
    \/ HashtagMessage

SpecLegend == InitLegend /\ [][NextLegend]_vars

(***************************************************************************)
(* SpecTrusted: the searches of an actor an administrator has put on the   *)
(* allow-list                                                              *)
(***************************************************************************)
\* as InitGuard, but the actor is on the allow-list
InitTrusted ==
    /\ InitStored
    /\ allowed_users = [u \in Users |->
           IF u \in SUPERADMINS \/ u \in ChatUsers THEN AllowedRow("ad") ELSE None]
    /\ settings \in { [k \in SettingKeys |-> None],
                      [k \in SettingKeys |-> Some(SmallLimit(k))] }

\* an actor who is not limited is asked for a group filter after a search
NextTrusted == NextGuard \/ MaleSearchWaitFemaleFilter

SpecTrusted == InitTrusted /\ [][NextTrusted]_vars

(***************************************************************************)
(* SpecSpacing: calls of rate_limit_allowed under a clock that never goes  *)
(* back                                                                    *)
(***************************************************************************)
\* no stored time; the sessions are empty
InitSpacing ==
    /\ now = T0
    /\ InitUsers /\ InitLogs /\ InitChats /\ InitIndexEmpty /\ InitSessions /\ InitMisc

\* db.rate_limit_allowed(user_id, now): the value returned is the event's out
RateLimitAllowed ==
    \E u \in Users :
        /\ ratelimits' = rate_limit_stamp(ratelimits, u, now)
        /\ ev' = ChatEvent("rate_limit_allowed", u,
                           IF rate_limit_allowed(ratelimits, u, now)
                           THEN "True" ELSE "False", "")
        /\ UNCHANGED <<now, userVars, searches, audit_log, idxVars, sessVars,
                       results, xVars>>

\* the clock advances by one second or by the minimum interval
TickSecond == TickIn({1, MIN_INTERVAL})

NextSpacing == RateLimitAllowed \/ TickSecond

SpecSpacing == InitSpacing /\ [][NextSpacing]_vars

(***************************************************************************)
(* bot.py: management of the admins                                        *)
(***************************************************************************)
\* INSERT OR IGNORE INTO admins / DELETE FROM admins
add_admin(ad, user_id) == ad \cup {user_id}

remove_admin(ad, user_id) == ad \ {user_id}

\* what an admin request leaves alone besides admins, allowed_users,
\* audit_log, ADM_PENDING and ev
AdminFrame ==
    UNCHANGED <<now, settings, searches, ratelimits, idxVars, sessVars, results,
                xtext, xids, ticks, inflight, tz_offset>>

\* the buttons that ask for the id of a new admin or of an admin to remove
ask_admin(uid, action) ==
    /\ IF ~is_superadmin(uid)
       THEN /\ ev' = ChatEvent("ask_" \o action, uid, "only_superadmin", "")
            /\ UNCHANGED ADM_PENDING
       ELSE /\ ADM_PENDING' = [ADM_PENDING EXCEPT ![uid] = Some(action)]
            /\ ev' = ChatEvent("ask_" \o action, uid, "prompt_user_id", "")
    /\ UNCHANGED <<admins, allowed_users, audit_log>>
    /\ AdminFrame

ask_add_admin(uid) == ask_admin(uid, "add_admin")

ask_del_admin(uid) == ask_admin(uid, "del_admin")

ask_add_user(uid) ==
    /\ is_admin(uid)
    /\ ADM_PENDING' = [ADM_PENDING EXCEPT ![uid] = Some("add_user")]
    /\ ev' = ChatEvent("ask_add_user", uid, "prompt_user_id", "")
    /\ UNCHANGED <<admins, allowed_users, audit_log>>
    /\ AdminFrame

\* a variant of the checks that lets every admin manage the admins
ManagesAdminsAsAdmin(uid) == is_admin(uid)

\* `if not is_superadmin(uid)` of the handlers that add or remove an admin
ManagesAdmins(uid) == is_superadmin(uid)

\* the text id:<target> while a request is pending
handle_admin_input(uid, target_id) ==
    LET action == Val(ADM_PENDING[uid]) IN
    /\ ADM_PENDING[uid] # None
    /\ ADM_PENDING' = [ADM_PENDING EXCEPT ![uid] = None]
    /\ admins' = IF action = "add_admin" /\ ManagesAdmins(uid)
                 THEN add_admin(admins, target_id)
                 ELSE IF action = "del_admin" /\ ManagesAdmins(uid)
                 THEN remove_admin(admins, target_id)
                 ELSE admins
    /\ allowed_users' = IF action = "add_user" /\ is_admin(uid)
                        THEN add_allowed_user(allowed_users, target_id, uid)
                        ELSE allowed_users
    /\ audit_log' = IF action \in {"add_admin", "del_admin"} /\ ManagesAdmins(uid)
                    THEN log_audit(audit_log, uid, action, target_id, now)
                    ELSE audit_log
    /\ ev' = ChatEvent("handle_admin_input", uid,
                       IF action \in {"add_admin", "del_admin"}
                       THEN (IF ManagesAdmins(uid) THEN action ELSE "only_superadmin")
                       ELSE IF is_admin(uid) THEN action ELSE "none",
                       action)
    /\ AdminFrame

\* the digits of an id while add_admin is pending
handle_add_admin_by_id_digits(uid, target_id) ==
    /\ ADM_PENDING[uid] = Some("add_admin")
    /\ IF ~ManagesAdmins(uid)
       THEN /\ ev' = ChatEvent("handle_add_admin_by_id_digits", uid, "none", "")
            /\ UNCHANGED <<admins, audit_log, ADM_PENDING>>
       ELSE /\ admins' = add_admin(admins, target_id)
            /\ audit_log' = log_audit(audit_log, uid, "add_admin", target_id, now)
            /\ ADM_PENDING' = [ADM_PENDING EXCEPT ![uid] = None]
            /\ ev' = ChatEvent("handle_add_admin_by_id_digits", uid, "add_admin", "")
    /\ UNCHANGED allowed_users
    /\ AdminFrame

\* callback admdY:<admin_id>:<page>
cb_admin_delete_yes(uid, admin_id) ==
    /\ IF ~ManagesAdmins(uid) \/ admin_id \in SUPERADMINS
       THEN /\ ev' = ChatEvent("cb_admin_delete_yes", uid, "no_rights", "")
            /\ UNCHANGED <<admins, audit_log>>
       ELSE /\ admins' = remove_admin(admins, admin_id)
            /\ audit_log' = log_audit(audit_log, uid, "remove_admin_from_panel",
                                      admin_id, now)
            /\ ev' = ChatEvent("cb_admin_delete_yes", uid, "removed", "")
    /\ UNCHANGED <<allowed_users, ADM_PENDING>>
    /\ AdminFrame

(***************************************************************************)
(* SpecAdmins: requests that add and remove admins and users               *)
(***************************************************************************)
AskAddAdmin == \E u \in Users : ask_add_admin(u)

AskDelAdmin == \E u \in Users : ask_del_admin(u)

AskAddUser == \E u \in Users : ask_add_user(u)

HandleAdminInput == \E u, target \in Users : handle_admin_input(u, target)

HandleAddAdminByIdDigits ==
    \E u, target \in Users : handle_add_admin_by_id_digits(u, target)

CbAdminDeleteYes == \E u, target \in Users : cb_admin_delete_yes(u, target)

NextAdmins ==
    \/ AskAddAdmin \/ AskDelAdmin \/ AskAddUser
    \/ HandleAdminInput \/ HandleAddAdminByIdDigits \/ CbAdminDeleteYes

SpecAdmins == InitIndex /\ [][NextAdmins]_vars

(***************************************************************************)
(* SpecJoin: the bot is added to a group by any account                    *)
(***************************************************************************)
\* the account that adds the bot: event.from_user
BotAddedByAnyone ==
    \E c \in Chats, t \in GroupTitles, u \in Users : on_bot_added(c, t, u)

NextJoin == BotAddedByAnyone \/ GroupMessage \/ GroupEdited \/ Unauthorize

\* no group is registered
InitJoin ==
    /\ now = T0
    /\ InitUsers /\ InitLogs /\ InitIndexEmpty /\ InitSessions /\ InitMisc
    /\ allowed_chats = [c \in Chats |-> None]
    /\ female_legends = [f \in FemaleIds |-> None]

SpecJoin == InitJoin /\ [][NextJoin]_vars

(***************************************************************************)
(* SpecZone: the searches of a guest on hosts of several timezones         *)
(***************************************************************************)
\* hours the host is behind or ahead of UTC
ZoneHours == 3

HostOffsets == {0 - ZoneHours * 3600, 0, ZoneHours * 3600}

\* as InitGuard, on a host of any of the offsets
InitZone ==
    /\ InitStoredIn(HostOffsets)
    /\ allowed_users = [u \in Users |-> IF u \in SUPERADMINS THEN AllowedRow(u) ELSE None]
    /\ settings \in { [k \in SettingKeys |-> None],
                      [k \in SettingKeys |-> Some(SmallLimit(k))] }

SpecZone == InitZone /\ [][NextGuard]_vars

(***************************************************************************)
(* SpecNav: the menus, the start command and Back                          *)
(***************************************************************************)
\* entries of a navigation stack the model follows
MaxStack == 4

\* the screens the handlers of this specification enter
NavScreens == {"root", "extra", "admin"}

NavUsers == {"g", "ad"}

\* nothing stored, no session, no username reserved
InitNav == InitIndex

NavRoom(u) == Len(NAV_STACK'[u]) <= MaxStack

Start == \E u \in NavUsers : Dispatch("start", u, CMD_START) /\ start(u, CMD_START)

AdminEntry ==
    \E u \in NavUsers :
        Dispatch("admin_entry", u, BTN_ADMIN) /\ admin_entry(u, BTN_ADMIN) /\ NavRoom(u)

ExtraMenu ==
    \E u \in NavUsers :
        Dispatch("extra_menu", u, BTN_EXTRA) /\ extra_menu(u, BTN_EXTRA) /\ NavRoom(u)

NavReportStart ==
    \E u \in {"g"} : Dispatch("report_start", u, BTN_REPORT) /\ report_start(u, BTN_REPORT)

NavBack ==
    \E u \in NavUsers : Dispatch("back_button", u, BTN_BACK) /\ back_button(u, BTN_BACK)

NextNav == Start \/ AdminEntry \/ ExtraMenu \/ NavReportStart \/ NavBack

SpecNav == InitNav /\ [][NextNav]_vars

(***************************************************************************)
(* SpecDrop: `more` payloads that were not issued by send_results          *)
(***************************************************************************)
MorePrefix == <<"m", "o", "r", "e", ":">>

\* no fields, no offset, an empty offset, an offset that is no integer
BrokenData ==
    { MorePrefix,
      MorePrefix \o TokA,
      MorePrefix \o TokA \o <<":">>,
      MorePrefix \o TokA \o <<":", "x">> \o <<":", "-", ":">> \o TF_ALL \o <<":", "1">> }

CbMoreBroken == \E u \in MoreUsers \cup ChatUsers, d \in BrokenData : cb_more(u, d)

NextDrop ==
    \/ HandleMaleSearchSubject \/ CbMoreGuest \/ CbMoreBroken \/ TickSpacing

SpecDrop == InitPages /\ [][NextDrop]_vars

(***************************************************************************)
(* SpecWalk: an actor walks the pages of one search through the issued     *)
(* `more` controls, the stored records unchanged                           *)
(***************************************************************************)
WalkUsers == {"g", "ad"}

\* the first page: offset 0, no group filter, the `all` time filter
WalkStart ==
    \E u \in WalkUsers : cb_more(u, MorePayload(TokA, 0, None, TF_ALL, TRUE))

\* the control issued with the page just delivered is activated
WalkMore ==
    /\ ev.op = "cb_more" /\ ev.reply # None
    /\ Val(ev.reply).out = "results" /\ Val(ev.reply).more # None
    /\ cb_more(ev.uid, Val(Val(ev.reply).more))

NextWalk == WalkStart \/ WalkMore

SpecWalk == InitQuery /\ [][NextWalk]_vars

(***************************************************************************)
(* SpecRace: updates of one actor handled as concurrent tasks: the report  *)
(* handlers interleave at the send                                         *)
(***************************************************************************)
\* handlers suspended at the same time
MaxInflight == 2

\* the actors who send reports: a guest and an administrator
RaceUsers == {"g", "ad"}

\* both actors have started a report on the group of TokC and are asked for
\* its text; the report limit of guests is the default or a small value
InitRace ==
    /\ now = T0
    /\ admins = {"ad"}
    /\ allowed_users = [u \in Users |-> IF u \in SUPERADMINS THEN AllowedRow(u) ELSE None]
    /\ \E small \in BOOLEAN :
           settings = [k \in SettingKeys |->
                          IF small /\ k = "guest_limit_report"
                          THEN Some(SMALL_LIMIT_REPORT) ELSE None]
    /\ InitLogs /\ InitChats /\ InitIndexEmpty /\ InitMisc
    /\ NAV_STATE = [u \in Users |-> None]
    /\ NAV_STACK = [u \in Users |-> <<>>]
    /\ REPORT_STATE = [u \in Users |->
           IF u \in RaceUsers
           THEN Some([stage |-> "wait_text", chat_id |-> Some("c1"),
                      female_id |-> Some(TokC)])
           ELSE None]
    /\ LEGEND_STATE = [u \in Users |-> None]
    /\ LEGEND_VIEW_STATE = [u \in Users |-> None]
    /\ MALE_SEARCH_STATE = [u \in Users |-> None]
    /\ GUEST_REPORT_STATE = [u \in Users |-> None]

RaceTexts == {Plain, Plain \o Sp \o TokA, Sp}

\* a text reaches report_wait_text and the handler gets to the send
ReportTextSend ==
    \E u \in RaceUsers, t \in RaceTexts :
        /\ Len(inflight) < MaxInflight
        /\ Dispatch("report_wait_text", u, t) /\ report_wait_text_send(u, t)

\* a text reaches report_wait_text and the handler returns before the send
ReportTextRefused ==
    \E u \in RaceUsers, t \in RaceTexts :
        /\ Dispatch("report_wait_text", u, t) /\ report_wait_text(u, t)
        /\ ev'.out # "report_sent"

\* the send of a suspended handler has completed
ReportTextSent == \E i \in 1..Len(inflight) : report_wait_text_sent(i)

NextRace == ReportTextSend \/ ReportTextRefused \/ ReportTextSent

SpecRace == InitRace /\ [][NextRace]_vars

(***************************************************************************)
(* Properties of the private chat                                          *)
(***************************************************************************)
\* a flow slot of the actor holds an active stage
Active(d, uid) == d[uid] # None /\ Val(d[uid]).stage # "none"

ActiveFlows(uid) ==
    { n \in {"report", "legend", "legend_view", "search_filter", "guest_pair"} :
        \/ n = "report" /\ Active(REPORT_STATE, uid)
        \/ n = "legend" /\ Active(LEGEND_STATE, uid)
        \/ n = "legend_view" /\ Active(LEGEND_VIEW_STATE, uid)
        \/ n = "search_filter" /\ Active(MALE_SEARCH_STATE, uid)
        \/ n = "guest_pair" /\ Active(GUEST_REPORT_STATE, uid) }

\* C1 as stated: for every actor at most one of the flow slots (report, legend
\* authoring, legend view, search filter, guest pair) holds an active stage
C1_AtMostOneFlow ==
    \A u \in Users : Cardinality(ActiveFlows(u)) <= 1

\* rows of the kind recorded for the actor in the trailing 24 hours
SearchesInDay(uid, types) ==
    Cardinality({ i \in 1..Len(searches) :
                    /\ searches[i].user_id = uid
                    /\ searches[i].query_type \in types
                    /\ mktime(searches[i].created_at) > now - DAY_SECONDS })

ReportsInDay(uid) ==
    Cardinality({ i \in 1..Len(audit_log) :
                    /\ audit_log[i].actor_id = uid
                    /\ audit_log[i].action = "report_send"
                    /\ mktime(audit_log[i].ts) > now - DAY_SECONDS })

LimitOf(key, default) == IF settings[key] = None THEN default ELSE Val(settings[key])

IsGuest(uid) == uid \notin SUPERADMINS /\ uid \notin admins /\ allowed_users[uid] = None

\* the step is a search request that got past the early returns
SearchStep ==
    /\ ev'.op \in {"handle_male_search", "guest_pair_wait_male"}
    /\ ev'.stage \notin {"skip", "female"}

\* the step handles a search, legend view or report of a guest that the ban
\* and spacing checks let through: it is answered with the quota message
\* exactly when the guest's rows of that kind in the trailing 24 hours have
\* reached the limit
QuotaStep ==
    /\ (SearchStep /\ IsGuest(ev'.uid) /\ ev'.stage \notin {"ban", "spacing"})
          => (ev'.out = "limited_search_quota"
                <=> SearchesInDay(ev'.uid, SEARCH_TYPES)
                       >= LimitOf("guest_limit_search", DEFAULT_LIMIT_SEARCH))
    /\ (ev'.op = "legend_view_wait_female" /\ IsGuest(ev'.uid))
          => (ev'.out = "legend_view_limit"
                <=> SearchesInDay(ev'.uid, {"legend_view"})
                       >= LimitOf("guest_limit_legend", DEFAULT_LIMIT_LEGEND))
    /\ (ev'.op = "report_wait_text" /\ IsGuest(ev'.uid) /\ ev'.out # "report_empty")
          => (ev'.out = "limited_report_quota"
                <=> ReportsInDay(ev'.uid)
                       >= LimitOf("guest_limit_report", DEFAULT_LIMIT_REPORT))

C3_BannedAttemptsRejected ==
    [][ ( /\ \/ SearchStep
             \/ ev'.op \in {"legend_view_wait_female", "report_wait_text"}
          /\ get_user_ban(allowed_users, ev'.uid) > now )
        => ev'.out = "banned" ]_vars

\* searches recorded for the actor in the trailing 60 seconds
SearchesInMinute(uid) ==
    Cardinality({ i \in 1..Len(searches) :
                    /\ searches[i].user_id = uid
                    /\ searches[i].query_type \in SEARCH_TYPES
                    /\ mktime(searches[i].created_at) > now - ABUSE_WINDOW })

SearchAnswers == {"results", "search_not_found"}

\* C4 as stated: the recorded search of a non-admin that brings the count of
\* the trailing 60 seconds to the threshold is answered with search results
C4_ThresholdSearchAnswered ==
    ( /\ ev.op \in {"handle_male_search", "guest_pair_wait_male"}
      /\ ev.stage \in {"done", "abuse"}
      /\ ~is_admin(ev.uid)
      /\ SearchesInMinute(ev.uid) = ABUSE_THRESHOLD )
        => ev.out \in SearchAnswers

\* the checks of a search in their order, each rejection without the effects
\* of the later steps
GuardStep ==
    SearchStep =>
        LET u == ev'.uid
            banned == get_user_ban(allowed_users, u) > now
            spaced == ratelimits[u] # None /\ now - Val(ratelimits[u]) < MIN_INTERVAL
            over   == /\ IsGuest(u)
                      /\ SearchesInDay(u, SEARCH_TYPES)
                            >= LimitOf("guest_limit_search", DEFAULT_LIMIT_SEARCH)
        IN
        IF banned
        THEN /\ ev'.out = "banned"
             /\ ratelimits' = ratelimits
             /\ searches' = searches
             /\ allowed_users' = allowed_users
        ELSE IF spaced
        THEN /\ ev'.out = "rate_limited"
             /\ ratelimits' = ratelimits
             /\ searches' = searches
             /\ allowed_users' = allowed_users
        ELSE IF over
        THEN /\ ev'.out = "limited_search_quota"
             /\ ratelimits'[u] = Some(now)
             /\ searches' = searches
             /\ allowed_users' = allowed_users
        ELSE /\ ev'.out \notin {"rate_limited", "limited_search_quota"}
             /\ ratelimits'[u] = Some(now)
             /\ Len(searches') = Len(searches) + 1
             /\ searches'[Len(searches')].user_id = u
             /\ searches'[Len(searches')].query_type \in SEARCH_TYPES
             /\ (allowed_users' # allowed_users
                    <=> (ev'.out = "banned" /\ get_user_ban(allowed_users', u) = now + BAN_SECONDS))

C6_BanNotReduced ==
    [][ \A u \in ChatUsers :
          get_user_ban(allowed_users, u) > now
              => get_user_ban(allowed_users', u) >= get_user_ban(allowed_users, u) ]_vars

(***************************************************************************)
(* Properties of result pages                                              *)
(***************************************************************************)
\* the arguments send_results was called with by the handler of event e
CallArgs(e, ms) ==
    IF e.op = "cb_more" THEN Val(cb_more_args(e.data))
    ELSE IF e.op = "cb_filter_set_time"
    THEN MoreArgs(Split(e.data)[2], 0,
                  IF ms[e.uid] = None \/ Val(ms[e.uid]).female_filter = Missing
                  THEN None ELSE Val(ms[e.uid]).female_filter,
                  NormTime(Split(e.data)[3]), TRUE)
    ELSE MoreArgs(TokA, 0, None, TF_ALL, FALSE)

\* the number of matching records of a call
TotalOf(a) ==
    count_by_male(messages, message_male_ids, allowed_chats, a.male_id,
                  a.female_filter, time_filter_since(a.time_filter))

\* the pages search_by_male can return for the arguments a from offset
PagesAt(a, offset) ==
    search_by_male(messages, message_male_ids, allowed_chats, a.male_id, PAGE,
                   offset, a.female_filter, time_filter_since(a.time_filter))

\* a callback of a `more` control has just been answered
MoreAnswered == ev.op = "cb_more" /\ ev.reply # None

\* C12: a `more` control whose offset is at or beyond the number of matching
\* records (which is positive) is answered with the first page
C12_OffsetBeyondTotalGivesFirstPage ==
    [][ (ev'.op = "cb_more" /\ CallArgs(ev', MALE_SEARCH_STATE).offset
                                  >= TotalOf(CallArgs(ev', MALE_SEARCH_STATE))
           /\ TotalOf(CallArgs(ev', MALE_SEARCH_STATE)) > 0)
        => /\ Val(ev'.reply).out = "results"
           /\ Val(ev'.reply).rows \in PagesAt(CallArgs(ev', MALE_SEARCH_STATE), 0)
           /\ Val(ev'.reply).rows # <<>> ]_vars

\* a quarter of an hour has passed, four records of the last 24 hours are
\* left, and a `more` control with offset 5 and the 24-hour filter is answered
\* with these four records
C12_Witness ==
    /\ MoreAnswered
    /\ ev.data = MorePayload(TokA, PAGE, None, TF_24H, TRUE)
    /\ TotalOf(CallArgs(ev, MALE_SEARCH_STATE)) = PageRows - AgingRows
    /\ Len(Val(ev.reply).rows) = PageRows - AgingRows
    /\ Val(ev.reply).offset = 0

\* a page of results has just been delivered
PageDelivered ==
    /\ ev.op \in {"handle_male_search", "guest_pair_wait_male", "cb_more",
                  "cb_filter_set_time"}
    /\ ev.reply # None
    /\ Val(ev.reply).out = "results"

\* C13: a page holds at most PAGE records; the shown count is
\* min(offset + delivered, total); the `more` control is there exactly when
\* offset + delivered < total, and the offset it encodes is offset + delivered
C13_PageShape ==
    PageDelivered =>
        LET r == Val(ev.reply)
            delivered == Len(r.rows)
        IN /\ r.total = TotalOf(CallArgs(ev, MALE_SEARCH_STATE))
           /\ delivered <= PAGE
           /\ delivered = Min(PAGE, r.total - r.offset)
           /\ r.shown = Min(r.offset + delivered, r.total)
           /\ (r.more # None) <=> (r.offset + delivered < r.total)
           /\ r.more # None =>
                  /\ cb_more_args(Val(r.more)) # None
                  /\ Val(cb_more_args(Val(r.more))).offset = r.offset + delivered

\* the second and last page of eight records: three records from offset 5,
\* shown 8/8, no `more` control
C13_Witness ==
    /\ PageDelivered
    /\ Val(ev.reply).offset = PAGE
    /\ Val(ev.reply).total = PageRows
    /\ Len(Val(ev.reply).rows) = PageRows - PAGE
    /\ Val(ev.reply).shown = PageRows
    /\ Val(ev.reply).more = None

\* C15: the answer to a `more` control is the page send_results computes from
\* the payload and the message index alone, whatever MALE_SEARCH_STATE holds
\* for the actor who presses it
C15_MoreIndependentOfSessions ==
    [][ ev'.op = "cb_more" =>
          LET a == Val(cb_more_args(ev'.data))
          IN ev'.reply \in
                { Some(r) : r \in send_results(a.male_id, a.offset, a.female_filter,
                                               a.time_filter, a.allow_filters) } ]_vars

\* an account without a dictionary presses a control issued for the group
\* filter TokC and gets the page from offset 5 under that filter, while the
\* administrator's dictionary holds another filter
C15_Witness ==
    /\ MoreAnswered
    /\ ev.uid = "sa" /\ ev.stage = "no_state"
    /\ ev.data = MorePayload(TokA, PAGE, Some(TokC), TF_ALL, TRUE)
    /\ Val(ev.reply).out = "results"
    /\ Val(ev.reply).offset = PAGE
    /\ Val(ev.reply).rows \in PagesAt(MoreArgs(TokA, PAGE, Some(TokC), TF_ALL, TRUE), PAGE)
    /\ MALE_SEARCH_STATE["ad"] # None
    /\ Val(MALE_SEARCH_STATE["ad"]).female_filter = None

\* C16 as stated: when the filter control of a result message with payload
\* (subject, g, t) is pressed and a time filter t2 is chosen in the menu it
\* opens, the answer is the first page of the subject under g and t2
C16_FilterControlUsesItsPayload ==
    [][ (/\ ev.op = "cb_filter_menu"
         /\ ev'.op = "cb_filter_set_time" /\ ev'.uid = ev.uid
         /\ Len(Split(ev'.data)) = 3)
        => ev'.reply \in
              { Some(r) : r \in send_results(Split(ev.data)[2], 0,
                                             FiltOfToken(Split(ev.data)[3]),
                                             NormTime(Split(ev'.data)[3]), TRUE) } ]_vars

\* record i of the index belongs to the group g
InGroup(i, g) ==
    /\ allowed_chats[messages[i].chat_id] # None
    /\ Val(allowed_chats[messages[i].chat_id]).female_id = g

\* C17: in the guest pair chain (a group id g, then a subject, the guard
\* passed) every record of the first page and of every page reached through
\* the `more` controls of the chain belongs to g, no answer of the chain has a
\* filter control, and a `more` control of the chain carries g and keeps the
\* filters off
C17_GuestPairRestricted ==
    [][ LET first == ev'.op = "guest_pair_wait_male" /\ ev'.reply # None
            later == /\ ev'.op = "cb_more"
                     /\ Val(cb_more_args(ev'.data)).female_filter # None
                     /\ ~Val(cb_more_args(ev'.data)).allow_filters
            g == IF first THEN Val(Val(GUEST_REPORT_STATE[ev'.uid]).female_id)
                 ELSE Val(Val(cb_more_args(ev'.data)).female_filter)
            r == Val(ev'.reply)
        IN (first \/ later) =>
              /\ \A i \in 1..Len(r.rows) : InGroup(r.rows[i], g)
              /\ r.filter = None
              /\ r.more # None =>
                     /\ Val(cb_more_args(Val(r.more))).female_filter = Some(g)
                     /\ ~Val(cb_more_args(Val(r.more))).allow_filters ]_vars

\* the second page of the chain: the guest pressed the `more` control issued
\* for the group TokC and got the last two of its seven records
C17_Witness ==
    /\ MoreAnswered
    /\ ev.uid = "g"
    /\ ev.data = MorePayload(TokA, PAGE, Some(TokC), TF_ALL, FALSE)
    /\ Val(ev.reply).offset = PAGE
    /\ Len(Val(ev.reply).rows) = PageRows - 1 - PAGE
    /\ \A i \in 1..Len(Val(ev.reply).rows) : InGroup(Val(ev.reply).rows[i], TokC)
    /\ Val(ev.reply).filter = None
    /\ \E k \in 1..Len(searches) : searches[k].query_type = "guest_pair"

\* C18 as stated: every page of results delivered to a guest was computed
\* under a group filter and holds records of that group only
C18_GuestResultsFiltered ==
    (PageDelivered /\ limited_user(allowed_users, ev.uid)) =>
        /\ Val(MALE_SEARCH_STATE[ev.uid]).female_filter # None
        /\ \A i \in 1..Len(Val(ev.reply).rows) :
              InGroup(Val(ev.reply).rows[i],
                      Val(Val(MALE_SEARCH_STATE[ev.uid]).female_filter))

(***************************************************************************)
(* Properties of the legend flows                                          *)
(***************************************************************************)
\* the legend flow of the actor waits for the text of subject-group f
WaitsText(uid, mode, f) ==
    /\ LEGEND_STATE[uid] # None
    /\ Val(LEGEND_STATE[uid]).stage = "wait_text"
    /\ Val(LEGEND_STATE[uid]).mode = mode
    /\ Val(LEGEND_STATE[uid]).female_id = Some(f)

\* C19 as stated: a text submitted to a flow in add mode changes no legend
\* that exists, and a text submitted to a flow in edit mode creates none
C19_AddNeverOverwrites ==
    [][ \A u \in LegendAdmins, f \in FemaleIds :
          ev'.op = "legend_wait_text" /\ ev'.uid = u =>
             /\ (WaitsText(u, "add", f) /\ female_legends[f] # None)
                    => female_legends'[f] = female_legends[f]
             /\ (WaitsText(u, "edit", f) /\ female_legends[f] = None)
                    => female_legends'[f] = None ]_vars

\* C20 as stated: a text submitted in edit mode that equals the content the
\* legend has now is answered as unchanged: nothing is sent to the group and
\* the legend is not written
C20_IdenticalTextNoWrite ==
    [][ \A u \in LegendAdmins, f \in FemaleIds :
          (/\ ev'.op = "legend_wait_text" /\ ev'.uid = u
           /\ WaitsText(u, "edit", f)
           /\ female_legends[f] # None
           /\ ev'.data = Strip(Val(female_legends[f]).content))
          => /\ ev'.out = "legend_unchanged"
             /\ female_legends' = female_legends ]_vars

\* C21: legend_wait_text writes the legend only when the send into the group
\* succeeded, and then with the message id the send returned; after a failed
\* send the legends are unchanged, the administrator gets the error answer
\* and the flow still waits for the text
C21_LegendWrittenAfterSend ==
    [][ ev'.op = "legend_wait_text" =>
          /\ female_legends' # female_legends =>
                 /\ ev'.out = "legend_sent" /\ ev'.reply # None
                 /\ \E f \in FemaleIds :
                       /\ WaitsText(ev'.uid, ev'.stage, f)
                       /\ Val(female_legends'[f]).message_id = Val(ev'.reply)
          /\ ev'.out = "legend_send_failed" =>
                 /\ female_legends' = female_legends
                 /\ LEGEND_STATE'[ev'.uid] = LEGEND_STATE[ev'.uid]
                 /\ StageOf(LEGEND_STATE', ev'.uid) = "wait_text" ]_vars

\* the send of a new legend failed: the group still has no legend and the
\* add flow of the administrator waits for the text
C21_Witness ==
    /\ ev.op = "legend_wait_text" /\ ev.out = "legend_send_failed"
    /\ WaitsText(ev.uid, "add", TokC)
    /\ female_legends[TokC] = None

\* C22 as stated: a hashtag message posted in a registered group by a member
\* who is not an administrator leaves every legend unchanged
C22_HashtagOnlyFromAdmins ==
    [][ (ev'.op = "on_group_message" /\ ~is_admin(GroupMember))
        => female_legends' = female_legends ]_vars

(***************************************************************************)
(* Properties of navigation and of the inputs of a flow                    *)
(***************************************************************************)
\* the step taken when the actor sends the Back command: the handler the
\* dispatcher picks for this text handles it
BackSentBy(uid) ==
    \/ Dispatch("guest_pair_wait_female", uid, BTN_BACK)
           /\ guest_pair_wait_female(uid, BTN_BACK)
    \/ Dispatch("guest_pair_wait_male", uid, BTN_BACK)
           /\ guest_pair_wait_male(uid, BTN_BACK)
    \/ Dispatch("back_button", uid, BTN_BACK) /\ back_button(uid, BTN_BACK)

\* C23 as stated: after the Back command of an actor is handled the actor has
\* no active flow and the current screen is the one popped from the
\* navigation stack
C23_BackCancelsEveryFlow ==
    [][ \A u \in ChatUsers :
          BackSentBy(u) =>
             /\ ActiveFlows(u)' = {}
             /\ NAV_STATE'[u] = Some(nav_back_state(u)) ]_vars

\* the step taken when the actor sends a plain text that is no button and no
\* id
PlainSentBy(uid) ==
    \/ Dispatch("guest_pair_wait_female", uid, Plain)
           /\ guest_pair_wait_female(uid, Plain)
    \/ Dispatch("guest_pair_wait_male", uid, Plain)
           /\ guest_pair_wait_male(uid, Plain)
    \/ Dispatch("report_wait_text", uid, Plain) /\ report_wait_text(uid, Plain)
    \/ Dispatch("male_search_wait_female_filter", uid, Plain)
           /\ male_search_wait_female_filter(uid, Plain)
    \/ Dispatch("unhandled", uid, Plain) /\ unhandled(uid, Plain)

\* a flow of the actor is at a stage that expects a 10-digit id
ExpectsId(uid) ==
    \/ StageOf(REPORT_STATE, uid) = "wait_female"
    \/ StageOf(LEGEND_STATE, uid) = "wait_female"
    \/ StageOf(LEGEND_VIEW_STATE, uid) = "wait_female"
    \/ StageOf(GUEST_REPORT_STATE, uid) \in {"wait_female", "wait_male"}

\* C24 as stated: a text that is not a 10-digit id, sent while a flow of the
\* actor expects an id, leaves the stages and data of the flows unchanged and
\* is answered with a re-prompt
C24_BadInputReprompted ==
    [][ \A u \in ChatUsers :
          (ExpectsId(u) /\ PlainSentBy(u)) =>
             /\ ev'.out # "none"
             /\ sessVars' = sessVars ]_vars

(***************************************************************************)
(* Properties of concurrent handlers                                       *)
(***************************************************************************)
\* reports of the actor posted to the group and stored
ReportsSent(uid) ==
    Cardinality({ i \in 1..Len(messages) : messages[i].sender_id = uid })

\* C25 as stated: the one report flow an actor has started sends at most one
\* report to the group
C25_OneReportPerFlow == \A u \in RaceUsers : ReportsSent(u) <= 1

\* C26 as stated: the report_send rows of a guest in the trailing 24 hours
\* never exceed the report limit
C26_ReportsWithinLimit ==
    \A u \in RaceUsers :
        IsGuest(u) => ReportsInDay(u) <= LimitOf("guest_limit_report", DEFAULT_LIMIT_REPORT)

(***************************************************************************)
(* Properties of the abuse escalation and of the spacing of requests       *)
(***************************************************************************)
\* admin, superadmin or on the allow-list
Privileged(uid) == is_admin(uid) \/ allowed_users[uid] # None

\* C27 as stated: a search never sets a ban on an actor who is an admin, a
\* superadmin or on the allow-list
C27_NoBanOnPrivileged ==
    [][ \A u \in Users :
          (/\ Privileged(u)
           /\ ev'.op \in {"handle_male_search", "guest_pair_wait_male"}
           /\ ev'.uid = u)
          => get_user_ban(allowed_users', u) = get_user_ban(allowed_users, u) ]_vars

\* the actor's last search that passed the spacing check (and stored its time)
\* is less than the minimum interval ago
SearchedJustNow(uid) ==
    ratelimits[uid] # None /\ now - Val(ratelimits[uid]) < MIN_INTERVAL

\* C28 as stated: a search, report or legend view that an actor attempts less
\* than the minimum interval after such a search is rejected: no legend
\* is shown, no report is sent and a search ends at the ban or spacing check
C28_SpacingGatesEveryAction ==
    [][ \A u \in ChatUsers :
          (SearchedJustNow(u) /\ ev'.uid = u)
          => /\ ev'.out \notin {"legend_shown", "report_sent"}
             /\ SearchStep => ev'.stage \in {"ban", "spacing"} ]_vars

\* the step is a call of rate_limit_allowed for uid
SpacingCall(uid) == ev'.op = "rate_limit_allowed" /\ ev'.uid = uid

\* C29: rate_limit_allowed returns True iff the user has no stored time or
\* the stored time is at least the minimum interval ago; it stores the time
\* of the call exactly when it returns True, so an accepted call is at least
\* the minimum interval after the accepted call before it, and a rejected
\* call leaves the stored time as it was
C29_RateLimitAllowed ==
    [][ \A u \in Users :
          SpacingCall(u) =>
            /\ ev'.out = "True"
                  <=> (ratelimits[u] = None \/ now - Val(ratelimits[u]) >= MIN_INTERVAL)
            /\ ev'.out = "True" => ratelimits'[u] = Some(now)
            /\ ev'.out = "False" => ratelimits'[u] = ratelimits[u]
            /\ (ev'.out = "True" /\ ratelimits[u] # None)
                  => now - Val(ratelimits[u]) >= MIN_INTERVAL
            /\ \A v \in Users \ {u} : ratelimits'[v] = ratelimits[v] ]_vars

\* a call was rejected one second after an accepted one
C29_Witness ==
    /\ ev.op = "rate_limit_allowed" /\ ev.out = "False"
    /\ ratelimits[ev.uid] = Some(now - 1)

(***************************************************************************)
(* Properties of edits without a target                                    *)
(***************************************************************************)
\* a MessageRecord is stored under the key
HasRecord(chat_id, message_id) ==
    \E i \in 1..Len(messages) :
        messages[i].chat_id = chat_id /\ messages[i].message_id = message_id

\* C30: an edit for a key without a MessageRecord, or from a chat that is
\* not registered, changes neither the stored messages nor the token links
C30_EditWithoutTarget ==
    [][ (/\ ev'.op = "on_group_edited"
         /\ \/ ~HasRecord(ev'.chat, ev'.mid)
            \/ allowed_chats[ev'.chat] = None)
        => /\ messages' = messages
           /\ message_male_ids' = message_male_ids ]_vars

\* an edit with an id arrived for a stored message of a chat that is no
\* longer registered
C30_Witness ==
    /\ ev.op = "on_group_edited" /\ ev.out = "not_registered"
    /\ HasRecord(ev.chat, ev.mid)
    /\ extract_male_ids(ev.text) # <<>>

\* an edit with an id arrived for a key without a record in a registered chat
C30_WitnessNoRow ==
    /\ ev.op = "on_group_edited" /\ ev.out = "no_row"
    /\ extract_male_ids(ev.text) # <<>>

(***************************************************************************)
(* Properties of the navigation stack                                      *)
(***************************************************************************)
\* nav_back on a stack: the screen it returns and the stack it leaves
BackScreen(stack) == IF stack # <<>> THEN stack[Len(stack)] ELSE "root"

BackStack(stack) == IF stack # <<>> THEN SubSeq(stack, 1, Len(stack) - 1) ELSE stack

\* the step is a nav_push of uid
PushStep(uid) ==
    ev'.uid = uid /\ ev'.op \in {"extra_menu", "admin_entry"} /\ ev'.out = "menu"

\* C31: nav_push saves the current screen (root if none) on top of the stack
\* and makes the entered screen current; nav_back makes current the screen on
\* top of the stack and removes it, and gives root on an empty stack; a
\* nav_back right after a nav_push gives back the screen and the stack
C31_NavStackLifo ==
    [][ \A u \in NavUsers :
          /\ PushStep(u) =>
                /\ NAV_STACK'[u] = Append(NAV_STACK[u], NavCurrent(NAV_STATE, u))
                /\ NavCurrent(NAV_STATE', u) = (IF ev'.op = "extra_menu"
                                                THEN "extra" ELSE "admin")
                /\ BackScreen(NAV_STACK'[u]) = NavCurrent(NAV_STATE, u)
                /\ BackStack(NAV_STACK'[u]) = NAV_STACK[u]
          /\ (ev'.op = "back_button" /\ ev'.uid = u) =>
                /\ NAV_STATE'[u] = Some(BackScreen(NAV_STACK[u]))
                /\ NAV_STACK'[u] = BackStack(NAV_STACK[u]) ]_vars

\* Back has returned from the extra menu entered from the admin menu
C31_Witness ==
    /\ ev.op = "back_button"
    /\ NAV_STATE[ev.uid] = Some("admin")
    /\ NAV_STACK[ev.uid] = <<"root">>

\* C32 as stated: the navigation stack of an actor never holds more entries
\* than there are screens
C32_SessionBounded ==
    \A u \in NavUsers : Len(NAV_STACK[u]) <= Cardinality(NavScreens)

(***************************************************************************)
(* Properties of the continuation controls                                 *)
(***************************************************************************)
\* C33 as stated: a `more` payload that cannot be parsed is dropped: no
\* records are delivered, no session or repository state changes, and the
\* handler ends without an exception
C33_UnparsedMoreDropped ==
    [][ (ev'.op = "cb_more" /\ cb_more_args(ev'.data) = None)
        => /\ ev'.reply = None
           /\ dbVars' = dbVars /\ sessVars' = sessVars
           /\ ev'.out # "raised" ]_vars

\* the step delivers a page of search results to uid
DeliversPage(uid) ==
    /\ ev'.uid = uid
    /\ ev'.op \in {"handle_male_search", "guest_pair_wait_male", "cb_more",
                   "cb_filter_set_time"}
    /\ ev'.reply # None
    /\ Val(ev'.reply).out = "results"

\* C34 as stated: a page of search results is delivered to an actor only in
\* an event in which the actor was past the ban, spacing and daily-quota
\* checks
C34_ResultsOnlyPastGuard ==
    [][ \A u \in ChatUsers : DeliversPage(u) => SearchGuardStop(u) = "pass" ]_vars

(***************************************************************************)
(* Properties of the roles                                                 *)
(***************************************************************************)
\* C35 as stated: a search, and the abuse ban it may set, leaves the actor's
\* tier as it was: is_allowed_user(actor) does not change
C35_BanKeepsTier ==
    [][ \A u \in ChatUsers :
          (ev'.uid = u /\ ev'.op \in {"handle_male_search", "guest_pair_wait_male"})
          => db_is_allowed_user(allowed_users', u) = db_is_allowed_user(allowed_users, u)
       ]_vars

(***************************************************************************)
(* Properties of the index over posts and edits                            *)
(***************************************************************************)
\* the tokens the index links to the message of the key
IndexedTokens(chat_id, message_id) ==
    IF HasRecord(chat_id, message_id)
    THEN LinksOf(message_male_ids, MessageRowId(messages, chat_id, message_id))
    ELSE {}

\* C36 as stated: a message is posted in a registered group and then edited:
\* after the edit the tokens linked to it are the tokens of its latest text
C36_LinksFollowLatestText ==
    [][ (/\ ev.op = "on_group_message" /\ ev.out \in {"no_ids", "saved"}
         /\ ev'.op = "on_group_edited"
         /\ ev'.chat = ev.chat /\ ev'.mid = ev.mid
         /\ allowed_chats[ev.chat] # None)
        => IndexedTokens(ev.chat, ev.mid)' = SeqToSet(extract_male_ids(ev'.text)) ]_vars

(***************************************************************************)
(* Properties of a walk through the pages                                  *)
(***************************************************************************)
\* the step activates the `more` control issued with the page of the state
\* it starts in
MoreActivated ==
    /\ ev.op = "cb_more" /\ ev.reply # None
    /\ Val(ev.reply).out = "results" /\ Val(ev.reply).more # None
    /\ ev'.op = "cb_more" /\ ev'.uid = ev.uid
    /\ ev'.data = Val(Val(ev.reply).more)

\* C37 as stated: the page delivered for the issued `more` control starts
\* where the page before ended, is full unless it is the last one, carries a
\* `more` control unless it reaches the total, and repeats no record of the
\* page before
C37_WalkDeliversOnce ==
    [][ MoreActivated =>
          LET prev == Val(ev.reply)
              page == Val(ev'.reply)
          IN /\ page.out = "results"
             /\ page.offset = prev.offset + Len(prev.rows)
             /\ Len(page.rows) = Min(PAGE, page.total - page.offset)
             /\ (page.more = None) <=> (page.offset + Len(page.rows) = page.total)
             /\ SeqToSet(page.rows) \cap SeqToSet(prev.rows) = {} ]_vars

(***************************************************************************)
(* Properties of the management of admins and groups                       *)
(***************************************************************************)
\* C38: the set of admins changes only in a step of a request to add or
\* remove an admin whose actor is a superadmin when the id is submitted; a
\* step of any other actor leaves the admins as they are
C38_AdminsChangedBySuperadmins ==
    [][ /\ admins' # admins =>
              /\ is_superadmin(ev'.uid)
              /\ ev'.op \in {"handle_admin_input", "handle_add_admin_by_id_digits",
                             "cb_admin_delete_yes"}
        /\ ~is_superadmin(ev'.uid) => admins' = admins ]_vars

\* an admin who is no superadmin confirmed the removal of another admin and
\* was refused; both are still admins
C38_Witness ==
    /\ ev.op = "cb_admin_delete_yes" /\ ev.out = "no_rights"
    /\ ev.uid = "ad" /\ ~is_superadmin(ev.uid)
    /\ {"ad", "g"} \subseteq admins

\* C39 as stated: a chat that becomes a registered group was registered by
\* an actor of the admin tier
C39_GroupsRegisteredByAdmins ==
    [][ \A c \in Chats :
          (allowed_chats[c] = None /\ allowed_chats'[c] # None)
          => is_admin(Val(allowed_chats'[c]).added_by) ]_vars

(***************************************************************************)
(* Properties of the time windows                                          *)
(***************************************************************************)
\* the searches of uid that happened less than window seconds ago
SearchesWithin(uid, window) ==
    Cardinality({ i \in 1..Len(searches) :
                    /\ searches[i].user_id = uid
                    /\ searches[i].query_type \in SEARCH_TYPES
                    /\ timegm(searches[i].created_at) > now - window })

\* C40 as stated: on a host of any timezone offset, a search of a guest that
\* is past the ban and spacing checks is refused for the quota iff the
\* guest's searches of the last 24 hours have reached the limit, and a
\* recorded search sets the abuse ban iff the searches of the last 60
\* seconds, this one included, have reached the threshold
C40_WindowsInOneTimeBase ==
    [][ \A u \in ChatUsers :
          (/\ ev'.uid = u /\ ev'.op = "handle_male_search"
           /\ ev'.stage \in {"quota", "done", "abuse"}
           /\ limited_user(allowed_users, u))
          => /\ ev'.stage = "quota"
                  <=> SearchesWithin(u, DAY_SECONDS)
                         >= LimitOf("guest_limit_search", DEFAULT_LIMIT_SEARCH)
             /\ ev'.stage = "abuse"
                  <=> /\ ev'.stage # "quota"
                      /\ SearchesWithin(u, ABUSE_WINDOW)' >= ABUSE_THRESHOLD ]_vars

=========================================================================
